---- MODULE Spec2Model ----
(***************************************************************************)
(* Archive extraction engine of astrbot-launcher (src-tauri/src/archive):  *)
(* entry-path validation, root-escape resolution, top-directory stripping, *)
(* entry writing and link handling, over a model of a Unix file system.    *)
(*                                                                         *)
(* Strings are sequences of one-character strings.  A path segment is a    *)
(* string; a canonical absolute path is a sequence of segments (<<>> is    *)
(* the file-system root); a std::path::Path is a record [abs, c].          *)
(***************************************************************************)
EXTENDS Naturals, Sequences, FiniteSets, TLC

-----------------------------------------------------------------------------
(* Generic helpers                                                         *)

Front(s) == SubSeq(s, 1, Len(s) - 1)

Last(s) == s[Len(s)]

IsPrefix(p, q) == Len(p) <= Len(q) /\ SubSeq(q, 1, Len(p)) = p

None == [some |-> FALSE, v |-> <<>>]

Some(x) == [some |-> TRUE, v |-> x]

Ok(x) == [ok |-> TRUE, v |-> x, err |-> "none"]

Err(e) == [ok |-> FALSE, v |-> <<>>, err |-> e]

\* let-binding: v is computed once and handed to the continuation K
With(v, K(_)) == K(v)

AsciiAlpha ==
    {"a","b","c","d","e","f","g","h","i","j","k","l","m","n","o","p","q","r",
     "s","t","u","v","w","x","y","z","A","B","C","D","E","F","G","H","I","J",
     "K","L","M","N","O","P","Q","R","S","T","U","V","W","X","Y","Z"}

\* str::split('/'): always at least one piece, empty pieces are kept
RECURSIVE SplitFrom(_, _, _)
SplitFrom(s, i, cur) ==
    IF i > Len(s) THEN <<cur>>
    ELSE IF s[i] = "/" THEN <<cur>> \o SplitFrom(s, i + 1, <<>>)
    ELSE SplitFrom(s, i + 1, Append(cur, s[i]))

Split(s) == SplitFrom(s, 1, <<>>)

\* Path::to_str / Display of a relative PathBuf: segments joined by '/'
RECURSIVE JoinSegs(_)
JoinSegs(segs) ==
    IF segs = <<>> THEN <<>>
    ELSE IF Len(segs) = 1 THEN segs[1]
    ELSE segs[1] \o <<"/">> \o JoinSegs(Tail(segs))

Contains(s, ch) == \E i \in 1..Len(s) : s[i] = ch

Dot == <<".">>

DotDot == <<".", ".">>

\* Path::new(s) on Unix: only '/' separates; empty and "." pieces vanish
\* from components(), ".." stays a ParentDir component.
RECURSIVE DropEmptyDot(_)
DropEmptyDot(parts) ==
    IF parts = <<>> THEN <<>>
    ELSE IF Head(parts) = <<>> \/ Head(parts) = Dot THEN DropEmptyDot(Tail(parts))
    ELSE <<Head(parts)>> \o DropEmptyDot(Tail(parts))

PathNew(s) == [abs |-> Len(s) >= 1 /\ s[1] = "/", c |-> DropEmptyDot(Split(s))]

AbsPath(segs) == [abs |-> TRUE, c |-> segs]

\* Path::join: an absolute right-hand side replaces the left-hand side
PathJoin(p, q) == IF q.abs THEN q ELSE [abs |-> p.abs, c |-> p.c \o q.c]

-----------------------------------------------------------------------------
(* archive/path.rs: entry-path validation                                  *)

normalize_entry_path(path) ==
    [i \in 1..Len(path) |-> IF path[i] = "\\" THEN "/" ELSE path[i]]

has_windows_drive_prefix(path) ==
    Len(path) >= 2 /\ path[2] = ":" /\ path[1] \in AsciiAlpha

first_segment(path) == Some(Head(Split(path)))

\* the loop of parse_entry_rel_path over normalized.split('/')
RECURSIVE PushParts(_, _)
PushParts(parts, relative) ==
    IF parts = <<>> THEN Some(relative)
    ELSE IF Head(parts) = <<>> \/ Head(parts) = Dot
         THEN PushParts(Tail(parts), relative)
    ELSE IF Head(parts) = DotDot THEN None
    ELSE PushParts(Tail(parts), Append(relative, Head(parts)))

\* parse_entry_rel_path without its drive-letter test
parse_entry_rel_path_no_drive_test(raw) ==
    With(normalize_entry_path(raw), LAMBDA normalized :
    With(first_segment(normalized), LAMBDA first :
        IF ~first.some THEN None
        ELSE IF first.v = <<>> THEN None
        ELSE With(PushParts(Split(normalized), <<>>), LAMBDA relative :
                 IF ~relative.some THEN None
                 ELSE IF relative.v = <<>> THEN None
                 ELSE relative)))

parse_entry_rel_path(raw) ==
    With(normalize_entry_path(raw), LAMBDA normalized :
    With(first_segment(normalized), LAMBDA first :
        IF ~first.some THEN None
        ELSE IF first.v = <<>> \/ has_windows_drive_prefix(normalized) THEN None
        ELSE With(PushParts(Split(normalized), <<>>), LAMBDA relative :
                 IF ~relative.some THEN None
                 ELSE IF relative.v = <<>> THEN None
                 ELSE relative)))

\* the components of a part that starts with a drive prefix, as
\* std::path reads it on Windows: Prefix(`C:`), then what follows it
WindowsComponents(part) ==
    <<SubSeq(part, 1, 2)>> \o
    (IF Len(part) > 2 THEN <<SubSeq(part, 3, Len(part))>> ELSE <<>>)

\* PathBuf::push of one part on a Windows build: a part that has a prefix
\* replaces the path built so far
PathBufPushWindows(relative, part) ==
    IF has_windows_drive_prefix(part) THEN WindowsComponents(part)
    ELSE Append(relative, part)

\* the loop of parse_entry_rel_path on a Windows build
RECURSIVE PushPartsWindows(_, _)
PushPartsWindows(parts, relative) ==
    IF parts = <<>> THEN Some(relative)
    ELSE IF Head(parts) = <<>> \/ Head(parts) = Dot
         THEN PushPartsWindows(Tail(parts), relative)
    ELSE IF Head(parts) = DotDot THEN None
    ELSE PushPartsWindows(Tail(parts), PathBufPushWindows(relative, Head(parts)))

\* parse_entry_rel_path on a Windows build; the value is the sequence of
\* components of the PathBuf returned
parse_entry_rel_path_windows(raw) ==
    With(normalize_entry_path(raw), LAMBDA normalized :
    With(first_segment(normalized), LAMBDA first :
        IF ~first.some THEN None
        ELSE IF first.v = <<>> \/ has_windows_drive_prefix(normalized) THEN None
        ELSE With(PushPartsWindows(Split(normalized), <<>>), LAMBDA relative :
                 IF ~relative.some THEN None
                 ELSE IF relative.v = <<>> THEN None
                 ELSE relative)))

-----------------------------------------------------------------------------
(* The file system the engine runs on (std::fs over Unix system calls).    *)
(* fs.tree maps each existing canonical path to its node, fs.ino maps an   *)
(* inode to its bytes; hard links are tree entries sharing one inode.      *)

MaxFollow == 4

DirNode == [k |-> "dir", ino |-> <<>>, to |-> <<>>]

FileNode(i) == [k |-> "file", ino |-> i, to |-> <<>>]

LinkNode(target) == [k |-> "link", ino |-> <<>>, to |-> target]

FsOk(f) == [ok |-> TRUE, fs |-> f, err |-> "none", at |-> <<>>]

FsOkAt(f, p) == [ok |-> TRUE, fs |-> f, err |-> "none", at |-> p]

FsErr(f, e) == [ok |-> FALSE, fs |-> f, err |-> e, at |-> <<>>]

Parent(p) == IF p = <<>> THEN <<>> ELSE Front(p)

\* Kernel path walk from directory cur over the components rest, following
\* every symbolic link met (the last one too).
RECURSIVE Walk(_, _, _, _)
Walk(t, cur, rest, fuel) ==
    IF rest = <<>> THEN [st |-> "ok", at |-> cur, last |-> FALSE]
    ELSE IF t[cur].k # "dir" THEN [st |-> "enotdir", at |-> cur, last |-> FALSE]
    ELSE LET c == Head(rest)
             tl == Tail(rest)
             nxt == Append(cur, c)
         IN  IF c = Dot \/ c = <<>> THEN Walk(t, cur, tl, fuel)
             ELSE IF c = DotDot THEN Walk(t, Parent(cur), tl, fuel)
             ELSE IF nxt \notin DOMAIN t
                  THEN [st |-> "enoent", at |-> nxt, last |-> (tl = <<>>)]
             ELSE IF t[nxt].k = "link"
                  THEN IF fuel = 0
                       THEN [st |-> "eloop", at |-> nxt, last |-> FALSE]
                       ELSE LET tgt == Split(t[nxt].to)
                                from == IF t[nxt].to[1] = "/" THEN <<>> ELSE cur
                            IN  Walk(t, from, tgt \o tl, fuel - 1)
             ELSE Walk(t, nxt, tl, fuel)

\* stat(2): the node a path names once links are followed
Stat(t, p) == Walk(t, <<>>, p, MaxFollow)

Exists(t, p) == Stat(t, p).st = "ok"

IsDir(t, p) == With(Stat(t, p), LAMBDA w : w.st = "ok" /\ t[w.at].k = "dir")

IsFile(t, p) == With(Stat(t, p), LAMBDA w : w.st = "ok" /\ t[w.at].k = "file")

\* the bytes of the regular file that path p names in file system f
BytesAt(f, p) == f.ino[f.tree[Stat(f.tree, p).at].ino]

\* Path::canonicalize (realpath)
Canonicalize(t, p) ==
    With(Stat(t, p), LAMBDA w :
        IF w.st = "ok" THEN Ok(w.at)
        ELSE IF w.st = "enoent" THEN Err("NotFound")
        ELSE Err(w.st))

\* Location of the last component of p with the parent resolved and the
\* last component itself not followed (mkdir, symlink, link).
ParentWalk(t, p) ==
    With(Walk(t, <<>>, Front(p), MaxFollow), LAMBDA w :
        IF w.st # "ok" THEN [st |-> w.st, at |-> <<>>]
        ELSE IF t[w.at].k # "dir" THEN [st |-> "enotdir", at |-> <<>>]
        ELSE [st |-> "ok", at |-> Append(w.at, Last(p))])

Put(f, p, node) ==
    [f EXCEPT !.tree = [q \in DOMAIN f.tree \cup {p} |->
                            IF q = p THEN node ELSE f.tree[q]]]

SetBytes(f, i, bytes) ==
    [f EXCEPT !.ino = [j \in DOMAIN f.ino \cup {i} |->
                           IF j = i THEN bytes ELSE f.ino[j]]]

\* mkdir(2)
Mkdir(f, p) ==
    IF p = <<>> THEN FsErr(f, "eexist")
    ELSE With(ParentWalk(f.tree, p), LAMBDA w :
             IF w.st # "ok" THEN FsErr(f, w.st)
             ELSE IF w.at \in DOMAIN f.tree THEN FsErr(f, "eexist")
             ELSE FsOkAt(Put(f, w.at, DirNode), w.at))

\* std::fs::create_dir_all
RECURSIVE CreateDirAll(_, _)
CreateDirAll(f, p) ==
    With(Mkdir(f, p), LAMBDA m :
        IF m.ok THEN m
        ELSE IF m.err = "enoent"
             THEN With(CreateDirAll(f, Parent(p)), LAMBDA par :
                      IF ~par.ok THEN par
                      ELSE With(Mkdir(par.fs, p), LAMBDA m2 :
                               IF m2.ok THEN m2
                               ELSE IF IsDir(par.fs.tree, p) THEN FsOk(par.fs)
                               ELSE m2))
        ELSE IF IsDir(f.tree, p) THEN FsOk(f)
        ELSE m)

\* open(2) with O_WRONLY|O_CREAT|O_TRUNC (File::create): a dangling link as
\* last component is followed and its target created.
OpenCreate(f, p) ==
    With(Stat(f.tree, p), LAMBDA w :
        IF w.st = "ok"
        THEN IF f.tree[w.at].k = "file"
             THEN FsOkAt(SetBytes(f, f.tree[w.at].ino, <<>>), w.at)
             ELSE FsErr(f, "eisdir")
        ELSE IF w.st = "enoent" /\ w.last
             THEN FsOkAt(SetBytes(Put(f, w.at, FileNode(w.at)), w.at, <<>>), w.at)
        ELSE FsErr(f, w.st))

\* File::create followed by io::copy of the bytes
WriteFile(f, p, bytes) ==
    With(OpenCreate(f, p), LAMBDA o :
        IF ~o.ok THEN o
        ELSE FsOkAt(SetBytes(o.fs, o.fs.tree[o.at].ino, bytes), o.at))

\* link(2) as std::fs::hard_link calls it: neither end is followed;
\* linkOk = FALSE is a refusal by the platform (EXDEV, EPERM, ...)
HardLink(f, src, dst, linkOk) ==
    IF src = <<>> \/ dst = <<>> THEN FsErr(f, "eperm")
    ELSE With(ParentWalk(f.tree, src), LAMBDA s :
         With(ParentWalk(f.tree, dst), LAMBDA d :
             IF s.st # "ok" THEN FsErr(f, s.st)
             ELSE IF s.at \notin DOMAIN f.tree THEN FsErr(f, "enoent")
             ELSE IF f.tree[s.at].k = "dir" THEN FsErr(f, "eperm")
             ELSE IF d.st # "ok" THEN FsErr(f, d.st)
             ELSE IF d.at \in DOMAIN f.tree THEN FsErr(f, "eexist")
             ELSE IF ~linkOk THEN FsErr(f, "exdev")
             ELSE FsOkAt(Put(f, d.at, f.tree[s.at]), d.at)))

\* std::fs::copy: the source must be a regular file; the destination is
\* opened with create+truncate before the bytes are read.
FsCopy(f, src, dst) ==
    IF ~IsFile(f.tree, src) THEN FsErr(f, "invalid-source")
    ELSE With(OpenCreate(f, dst), LAMBDA o :
             IF ~o.ok THEN o
             ELSE FsOkAt(SetBytes(o.fs, o.fs.tree[o.at].ino,
                                  o.fs.ino[f.tree[Stat(f.tree, src).at].ino]), o.at))

\* symlink(2)
Symlink(f, target, linkpath) ==
    IF linkpath = <<>> THEN FsErr(f, "eexist")
    ELSE With(ParentWalk(f.tree, linkpath), LAMBDA w :
             IF w.st # "ok" THEN FsErr(f, w.st)
             ELSE IF w.at \in DOMAIN f.tree THEN FsErr(f, "eexist")
             ELSE FsOkAt(Put(f, w.at, LinkNode(target)), w.at))

-----------------------------------------------------------------------------
(* archive/path.rs: root-escape resolution and link-target validation      *)

\* first loop of canonicalize_longest_prefix: lexical normalization
RECURSIVE LexNormalize(_, _, _)
LexNormalize(comps, hasRoot, normalized) ==
    IF comps = <<>> THEN Ok(normalized)
    ELSE IF Head(comps) = Dot THEN LexNormalize(Tail(comps), hasRoot, normalized)
    ELSE IF Head(comps) = DotDot
         THEN IF normalized = <<>> /\ ~hasRoot
              THEN Err("parent traversal escapes root")
              ELSE LexNormalize(Tail(comps), hasRoot, Parent(normalized))
    ELSE LexNormalize(Tail(comps), hasRoot, Append(normalized, Head(comps)))

\* canonicalize_longest_prefix that never asks the file system
LongestPrefixLoop_lexical(t, current, suffix) == Ok(current \o suffix)

\* second loop that takes every failure of canonicalize for a missing segment
RECURSIVE LongestPrefixLoop_any_error(_, _, _)
LongestPrefixLoop_any_error(t, current, suffix) ==
    With(Canonicalize(t, current), LAMBDA c :
        IF c.ok THEN Ok(c.v \o suffix)
        ELSE IF current = <<>> THEN Err("reached filesystem root")
        ELSE LongestPrefixLoop_any_error(t, Front(current), <<Last(current)>> \o suffix))

\* second loop of canonicalize_longest_prefix: pop until a prefix resolves
RECURSIVE LongestPrefixLoop(_, _, _)
LongestPrefixLoop(t, current, suffix) ==
    With(Canonicalize(t, current), LAMBDA c :
        IF c.ok THEN Ok(c.v \o suffix)
        ELSE IF c.err = "NotFound"
             THEN IF current = <<>>
                  THEN Err("reached filesystem root")
                  ELSE LongestPrefixLoop(t, Front(current), <<Last(current)>> \o suffix)
        ELSE Err(c.err))

canonicalize_longest_prefix(t, path) ==
    With(LexNormalize(path.c, path.abs, <<>>), LAMBDA normalized :
        IF ~normalized.ok THEN normalized
        ELSE LongestPrefixLoop(t, normalized.v, <<>>))

resolve_within_dir(t, base_dir, path) ==
    With(Canonicalize(t, base_dir), LAMBDA canonical_base :
        IF ~canonical_base.ok THEN Err("failed to canonicalize base dir")
        ELSE With(canonicalize_longest_prefix(t,
                      IF path.abs THEN path
                      ELSE PathJoin(AbsPath(canonical_base.v), path)),
                  LAMBDA canonical_candidate :
                 IF ~canonical_candidate.ok THEN canonical_candidate
                 ELSE IF ~IsPrefix(canonical_base.v, canonical_candidate.v)
                      THEN Err("path escaping destination")
                 ELSE canonical_candidate))

\* on Unix Path::components never yields a Prefix component
has_windows_path_prefix(target) == has_windows_drive_prefix(target)

\* validate_rel_link_target that only refuses the empty target
validate_rel_link_target_lax(target) ==
    IF target = <<>> THEN Err("target path is empty") ELSE Ok(<<>>)

validate_rel_link_target(target) ==
    IF target = <<>> THEN Err("target path is empty")
    ELSE IF PathNew(target).abs THEN Err("absolute targets are not allowed")
    ELSE IF has_windows_path_prefix(target) THEN Err("unsupported Windows path prefix")
    ELSE Ok(<<>>)

-----------------------------------------------------------------------------
(* archive/path.rs: top-directory detection                                *)

TopInit == [candidate |-> None, saw_nested |-> FALSE, valid |-> TRUE]

\* scan_common_top_dir that keeps the first candidate whatever comes later
scan_common_top_dir_first(path, acc) ==
    With(first_segment(normalize_entry_path(path)), LAMBDA first :
        [acc EXCEPT !.saw_nested = acc.saw_nested \/ Contains(normalize_entry_path(path), "/"),
                    !.candidate = IF acc.candidate.some THEN acc.candidate
                                  ELSE Some(first.v)])

scan_common_top_dir(path, acc) ==
    IF ~acc.valid THEN acc
    ELSE With(normalize_entry_path(path), LAMBDA normalized :
         With(first_segment(normalized), LAMBDA first :
             IF ~first.some THEN [acc EXCEPT !.valid = FALSE]
             ELSE IF first.v = <<>> THEN [acc EXCEPT !.valid = FALSE]
             ELSE With(acc.saw_nested \/ Contains(normalized, "/"), LAMBDA nested :
                      IF ~acc.candidate.some
                      THEN [acc EXCEPT !.saw_nested = nested, !.candidate = Some(first.v)]
                      ELSE IF acc.candidate.v = first.v
                           THEN [acc EXCEPT !.saw_nested = nested]
                      ELSE [acc EXCEPT !.saw_nested = nested, !.valid = FALSE])))

\* finalize_common_top_dir that does not ask for a nested entry
finalize_common_top_dir_flat(acc) == IF acc.valid THEN acc.candidate ELSE None

finalize_common_top_dir(acc) ==
    IF acc.valid /\ acc.saw_nested THEN acc.candidate ELSE None

\* the scanning loop shared by detect_common_top_dir (zip) and the first
\* pass of extract_tar_gz_flat: unparseable paths are passed over
RECURSIVE ScanPaths(_, _)
ScanPaths(paths, acc) ==
    IF paths = <<>> THEN acc
    ELSE With(parse_entry_rel_path(Head(paths)), LAMBDA relative :
             IF relative.some
             THEN ScanPaths(Tail(paths), scan_common_top_dir(JoinSegs(relative.v), acc))
             ELSE ScanPaths(Tail(paths), acc))

detect_common_top_dir(paths) == finalize_common_top_dir(ScanPaths(paths, TopInit))

\* strip_common_top_dir that does not look whether anything is left
strip_common_top_dir_unchecked(relative, top_dir) ==
    IF ~top_dir.some THEN Some(relative)
    ELSE IF ~IsPrefix(PathNew(top_dir.v).c, relative) THEN None
    ELSE Some(SubSeq(relative, Len(PathNew(top_dir.v).c) + 1, Len(relative)))

\* strip_common_top_dir that leaves every path as it is
strip_common_top_dir_keep(relative, top_dir) == Some(relative)

strip_common_top_dir(relative, top_dir) ==
    IF ~top_dir.some THEN Some(relative)
    ELSE With(PathNew(top_dir.v).c, LAMBDA top :
             IF ~IsPrefix(top, relative) THEN None
             ELSE IF Len(relative) = Len(top) THEN None
             ELSE Some(SubSeq(relative, Len(top) + 1, Len(relative))))

-----------------------------------------------------------------------------
(* archive/extract.rs                                                      *)

\* permOk = FALSE: the platform refuses fs::set_permissions
set_unix_permissions(f, path, mode, permOk) ==
    IF mode.some /\ ~permOk THEN FsErr(f, "failed to set permissions")
    ELSE FsOk(f)

\* write_entry that does not compare the byte count with the declared size
write_entry_uncounted(f, out_path, is_dir, bytes, unix_mode, declared_size, permOk) ==
    IF is_dir THEN CreateDirAll(f, out_path)
    ELSE With(IF out_path = <<>> THEN FsOk(f) ELSE CreateDirAll(f, Parent(out_path)),
              LAMBDA mk :
             IF ~mk.ok THEN mk
             ELSE With(WriteFile(mk.fs, out_path, bytes), LAMBDA w :
                      IF ~w.ok THEN w
                      ELSE [set_unix_permissions(w.fs, out_path, unix_mode, permOk)
                                EXCEPT !.at = w.at]))

write_entry(f, out_path, is_dir, bytes, unix_mode, declared_size, permOk) ==
    IF is_dir THEN CreateDirAll(f, out_path)
    ELSE With(IF out_path = <<>> THEN FsOk(f) ELSE CreateDirAll(f, Parent(out_path)),
              LAMBDA mk :
             IF ~mk.ok THEN mk
             ELSE With(WriteFile(mk.fs, out_path, bytes), LAMBDA w :
                      IF ~w.ok THEN w
                      ELSE IF declared_size.some /\ Len(bytes) # declared_size.v
                           THEN [FsErr(w.fs, "size mismatch") EXCEPT !.at = w.at]
                      ELSE [set_unix_permissions(w.fs, out_path, unix_mode, permOk)
                                EXCEPT !.at = w.at]))

-----------------------------------------------------------------------------
(* archive/links.rs                                                        *)

create_symlink(f, target, link_path) == Symlink(f, target, link_path)

\* create_hard_link that gives up when the platform refuses the link
create_hard_link_strict(f, target, link_path, linkOk) ==
    HardLink(f, target, link_path, linkOk)

create_hard_link(f, target, link_path, linkOk) ==
    With(HardLink(f, target, link_path, linkOk), LAMBDA h :
        IF h.ok THEN h
        ELSE With(FsCopy(f, target, link_path), LAMBDA c :
                 IF c.ok THEN c ELSE FsErr(c.fs, "failed to copy")))

resolve_relative_symlink_target(t, out_path, target, dest_dir) ==
    IF out_path = <<>> THEN Err("symlink entry has no parent directory")
    ELSE resolve_within_dir(t, dest_dir,
                            PathJoin(AbsPath(Parent(out_path)), PathNew(target)))

\* queue_symlink that does not resolve the target against the root
queue_symlink_unchecked(t, out_path, target, dest_dir) ==
    With(validate_rel_link_target(target), LAMBDA valid :
        IF ~valid.ok THEN valid
        ELSE Ok([out_path |-> out_path, target |-> target,
                 resolved_target |-> Parent(out_path)]))

queue_symlink(t, out_path, target, dest_dir) ==
    With(validate_rel_link_target(target), LAMBDA valid :
        IF ~valid.ok THEN valid
        ELSE With(resolve_relative_symlink_target(t, out_path, target, dest_dir),
                  LAMBDA resolved_target :
                 IF ~resolved_target.ok THEN resolved_target
                 ELSE Ok([out_path |-> out_path, target |-> target,
                          resolved_target |-> resolved_target.v])))

\* one iteration of the loop of create_queued_symlinks
create_queued_symlink(f, item) ==
    IF item.out_path = <<>> THEN FsErr(f, "symlink entry has no parent directory")
    ELSE With(CreateDirAll(f, Parent(item.out_path)), LAMBDA mk :
             IF ~mk.ok THEN mk
             ELSE create_symlink(mk.fs, item.target, item.out_path))

create_hard_link_entry(f, out_path, resolved_target, linkOk) ==
    IF out_path = <<>> THEN FsErr(f, "entry has no parent directory")
    ELSE With(CreateDirAll(f, Parent(out_path)), LAMBDA mk :
             IF ~mk.ok THEN FsErr(mk.fs, "failed to create directory")
             ELSE create_hard_link(mk.fs, resolved_target, out_path, linkOk))

-----------------------------------------------------------------------------
(* Destination mappers: the closures handed to extract_*_mapped            *)

S_backup_toml == <<"b","a","c","k","u","p",".","t","o","m","l">>

S_venv == <<"v","e","n","v">>

S_data == <<"d","a","t","a">>

S_core == <<"c","o","r","e">>

S_inst == <<"i","n","s","t">>

\* paths.rs: get_instance_dir / get_instance_core_dir of the one instance
InstanceDir == <<S_inst>>

CoreDir == Append(InstanceDir, S_core)

route_backup_entry(relative, instance_dir, core_dir) ==
    IF relative = <<S_backup_toml>> THEN None
    ELSE IF Head(relative) = S_venv THEN None
    ELSE IF Head(relative) = S_data THEN Some(AbsPath(core_dir \o relative))
    ELSE Some(AbsPath(instance_dir \o relative))

\* closure of extract_tar_gz_flat / extract_zip_flat
FlatMapper(raw_path, top, dest) ==
    With(parse_entry_rel_path(raw_path), LAMBDA relative :
        IF ~relative.some THEN None
        ELSE With(strip_common_top_dir(relative.v, top), LAMBDA stripped :
                 IF ~stripped.some THEN None
                 ELSE Some(AbsPath(dest \o stripped.v))))

\* closure `routing` of backup.rs extract_backup_to_instance
BackupMapper(raw_path) ==
    With(parse_entry_rel_path(raw_path), LAMBDA relative :
        IF ~relative.some THEN None
        ELSE route_backup_entry(relative.v, InstanceDir, CoreDir))

\* closure `routing` of backup.rs restore_data_to_instance
DataMapper(raw_path) ==
    With(parse_entry_rel_path(raw_path), LAMBDA relative :
        IF ~relative.some THEN None
        ELSE IF Head(relative.v) # S_data THEN None
        ELSE Some(AbsPath(CoreDir \o relative.v)))

destination_for(m, top, dest, raw_path) ==
    IF m = "flat" THEN FlatMapper(raw_path, top, dest)
    ELSE IF m = "backup" THEN BackupMapper(raw_path)
    ELSE DataMapper(raw_path)

-----------------------------------------------------------------------------
(* archive/tar_gz.rs, archive/zip_ops.rs: one iteration of the entry loop  *)

\* what one iteration leaves behind: the file system, the written-file set,
\* the symlink queue, whether the loop goes on, and what was done where
Out(f, ex, pend, res, err, op, at) ==
    [fs |-> f, extracted |-> ex, pending |-> pend, res |-> res, err |-> err,
     op |-> op, at |-> at, src |-> <<>>, path |-> <<>>]

\* the outcome of an iteration that went through: path is the resolved
\* output path of the entry, src the source of a hard link
Done(f, ex, pend, op, at, src, path) ==
    [fs |-> f, extracted |-> ex, pending |-> pend, res |-> "next", err |-> "none",
     op |-> op, at |-> at, src |-> src, path |-> path]

\* symlink branch that creates the link at once instead of queueing it
QueueBranch_eager(f, e, ex, pend, dest, resolved_out_path) ==
    With(create_queued_symlink(f, [out_path |-> resolved_out_path, target |-> e.target,
                                   resolved_target |-> <<>>]), LAMBDA c :
        IF ~c.ok THEN Out(c.fs, ex, pend, "err", c.err, "queue", <<>>)
        ELSE Done(c.fs, ex, pend, "queue", resolved_out_path, <<>>, resolved_out_path))

\* symlink branch that records the queued link in the written-file set
QueueBranch_tracked(f, e, ex, pend, dest, resolved_out_path) ==
    With(queue_symlink(f.tree, resolved_out_path, e.target, dest), LAMBDA pending :
        IF ~pending.ok THEN Out(f, ex, pend, "err", pending.err, "queue", <<>>)
        ELSE Done(f, ex \cup {resolved_out_path}, Append(pend, pending.v), "queue",
                  resolved_out_path, <<>>, resolved_out_path))

QueueBranch(f, e, ex, pend, dest, resolved_out_path) ==
    With(queue_symlink(f.tree, resolved_out_path, e.target, dest), LAMBDA pending :
        IF ~pending.ok THEN Out(f, ex, pend, "err", pending.err, "queue", <<>>)
        ELSE Done(f, ex, Append(pend, pending.v), "queue", resolved_out_path,
                  <<>>, resolved_out_path))

WriteBranch(f, e, ex, pend, resolved_out_path, is_dir, tracksFiles, permOk) ==
    With(write_entry(f, resolved_out_path, is_dir, e.data, e.mode,
                     IF is_dir THEN None ELSE Some(e.size), permOk), LAMBDA w :
        IF ~w.ok THEN Out(w.fs, ex, pend, "err", w.err,
                          IF is_dir THEN "dir" ELSE "file", w.at)
        ELSE IF is_dir
             THEN Done(w.fs, ex, pend, "dir",
                       Stat(w.fs.tree, resolved_out_path).at, <<>>, resolved_out_path)
        ELSE Done(w.fs, IF tracksFiles THEN ex \cup {resolved_out_path} ELSE ex,
                  pend, "file", w.at, <<>>, resolved_out_path))

\* candidate search that does not consult the written-file set
FindCandidate_any(candidates, ex) == Some(Head(candidates))

\* first candidate of the list that is in the written-file set
RECURSIVE FindCandidate(_, _)
FindCandidate(candidates, ex) ==
    IF candidates = <<>> THEN None
    ELSE IF Head(candidates) \in ex THEN Some(Head(candidates))
    ELSE FindCandidate(Tail(candidates), ex)

HardLinkBranch(f, e, ex, pend, m, top, dest, resolved_out_path, linkOk) ==
    IF e.target = <<>>
    THEN Out(f, ex, pend, "err", "hard link entry missing link target", "hardlink", <<>>)
    ELSE
    With(validate_rel_link_target(e.target), LAMBDA valid :
    IF ~valid.ok THEN Out(f, ex, pend, "err", valid.err, "hardlink", <<>>)
    ELSE
    With(destination_for(m, top, dest, e.target), LAMBDA mapped :
    With(IF mapped.some THEN resolve_within_dir(f.tree, dest, mapped.v) ELSE Ok(<<>>),
         LAMBDA first :
    IF ~first.ok THEN Out(f, ex, pend, "err", first.err, "hardlink", <<>>)
    ELSE IF resolved_out_path = <<>>
         THEN Out(f, ex, pend, "err", "hard link entry has no parent directory",
                  "hardlink", <<>>)
    ELSE
    With(resolve_within_dir(f.tree, dest,
             PathJoin(AbsPath(Parent(resolved_out_path)), PathNew(e.target))),
         LAMBDA second :
    IF ~second.ok THEN Out(f, ex, pend, "err", second.err, "hardlink", <<>>)
    ELSE
    With(FindCandidate((IF mapped.some THEN <<first.v>> ELSE <<>>) \o <<second.v>>, ex),
         LAMBDA resolved_target :
    IF ~resolved_target.some
    THEN Out(f, ex, pend, "err", "hard link target not extracted earlier",
             "hardlink", <<>>)
    ELSE
    With(create_hard_link_entry(f, resolved_out_path, resolved_target.v, linkOk),
         LAMBDA h :
    IF ~h.ok THEN [Out(h.fs, ex, pend, "err", h.err, "hardlink", <<>>)
                       EXCEPT !.src = resolved_target.v, !.path = resolved_out_path]
    ELSE Done(h.fs, ex \cup {resolved_out_path}, pend, "hardlink", h.at,
              resolved_target.v, resolved_out_path)))))))

\* loop body that reports a skipped entry as an error
TarEntry_skip_fails(f, e, ex, pend, m, top, dest, permOk, linkOk) ==
    IF ~parse_entry_rel_path(e.path).some
    THEN Out(f, ex, pend, "err", "unsafe entry path", "check", <<>>)
    ELSE
    With(destination_for(m, top, dest, e.path), LAMBDA out_path :
    IF ~out_path.some THEN Out(f, ex, pend, "err", "entry has no destination", "skip", <<>>)
    ELSE
    With(resolve_within_dir(f.tree, dest, out_path.v), LAMBDA resolved :
    IF ~resolved.ok THEN Out(f, ex, pend, "err", resolved.err, "check", <<>>)
    ELSE IF e.kind = "symlink"
         THEN IF e.target = <<>>
              THEN Out(f, ex, pend, "err", "symlink entry missing link target",
                       "queue", <<>>)
              ELSE QueueBranch(f, e, ex, pend, dest, resolved.v)
    ELSE IF e.kind = "hardlink"
         THEN HardLinkBranch(f, e, ex, pend, m, top, dest, resolved.v, linkOk)
    ELSE IF e.kind # "dir" /\ e.kind # "file"
         THEN Out(f, ex, pend, "err", "unsupported tar entry type", "check", <<>>)
    ELSE WriteBranch(f, e, ex, pend, resolved.v, e.kind = "dir", TRUE, permOk)))

\* loop body that asks the mapper first and checks the raw path of the
\* entries it keeps
TarEntry_mapper_first(f, e, ex, pend, m, top, dest, permOk, linkOk) ==
    With(destination_for(m, top, dest, e.path), LAMBDA out_path :
    IF ~out_path.some THEN Out(f, ex, pend, "next", "none", "skip", <<>>)
    ELSE IF ~parse_entry_rel_path(e.path).some
    THEN Out(f, ex, pend, "err", "unsafe entry path", "check", <<>>)
    ELSE
    With(resolve_within_dir(f.tree, dest, out_path.v), LAMBDA resolved :
    IF ~resolved.ok THEN Out(f, ex, pend, "err", resolved.err, "check", <<>>)
    ELSE IF e.kind = "symlink"
         THEN IF e.target = <<>>
              THEN Out(f, ex, pend, "err", "symlink entry missing link target",
                       "queue", <<>>)
              ELSE QueueBranch(f, e, ex, pend, dest, resolved.v)
    ELSE IF e.kind = "hardlink"
         THEN HardLinkBranch(f, e, ex, pend, m, top, dest, resolved.v, linkOk)
    ELSE IF e.kind # "dir" /\ e.kind # "file"
         THEN Out(f, ex, pend, "err", "unsupported tar entry type", "check", <<>>)
    ELSE WriteBranch(f, e, ex, pend, resolved.v, e.kind = "dir", TRUE, permOk)))

\* body of the loop of extract_tar_gz_mapped for entry e
TarEntry(f, e, ex, pend, m, top, dest, permOk, linkOk) ==
    IF ~parse_entry_rel_path(e.path).some
    THEN Out(f, ex, pend, "err", "unsafe entry path", "check", <<>>)
    ELSE
    With(destination_for(m, top, dest, e.path), LAMBDA out_path :
    IF ~out_path.some THEN Out(f, ex, pend, "next", "none", "skip", <<>>)
    ELSE
    With(resolve_within_dir(f.tree, dest, out_path.v), LAMBDA resolved :
    IF ~resolved.ok THEN Out(f, ex, pend, "err", resolved.err, "check", <<>>)
    ELSE IF e.kind = "symlink"
         THEN IF e.target = <<>>
              THEN Out(f, ex, pend, "err", "symlink entry missing link target",
                       "queue", <<>>)
              ELSE QueueBranch(f, e, ex, pend, dest, resolved.v)
    ELSE IF e.kind = "hardlink"
         THEN HardLinkBranch(f, e, ex, pend, m, top, dest, resolved.v, linkOk)
    ELSE IF e.kind # "dir" /\ e.kind # "file"
         THEN Out(f, ex, pend, "err", "unsupported tar entry type", "check", <<>>)
    ELSE WriteBranch(f, e, ex, pend, resolved.v, e.kind = "dir", TRUE, permOk)))

\* body of the loop of extract_zip_mapped for entry e
ZipEntry(f, e, ex, pend, m, top, dest, permOk) ==
    IF ~parse_entry_rel_path(e.path).some
    THEN Out(f, ex, pend, "err", "unsafe zip path", "check", <<>>)
    ELSE
    With(destination_for(m, top, dest, e.path), LAMBDA out_path :
    IF ~out_path.some THEN Out(f, ex, pend, "next", "none", "skip", <<>>)
    ELSE
    With(resolve_within_dir(f.tree, dest, out_path.v), LAMBDA resolved :
    IF ~resolved.ok THEN Out(f, ex, pend, "err", resolved.err, "check", <<>>)
    ELSE IF e.kind = "symlink"
         THEN QueueBranch(f, e, ex, pend, dest, resolved.v)
    ELSE WriteBranch(f, e, ex, pend, resolved.v, e.kind = "dir", FALSE, permOk)))

-----------------------------------------------------------------------------
(* State of one extraction call                                            *)

VARIABLES
    fs,                \* the file system
    fs0,               \* the file system when the call started (history)
    archive,           \* the entries of the archive file, in archive order
    format,            \* "tar" (tar_gz.rs) or "zip" (zip_ops.rs)
    mode,              \* which closure maps entries: "flat", "backup", "data"
    dest_dir,          \* the dest_dir argument
    pc,                \* "scan", "open", "entries", "symlinks", "done"
    pos,               \* index of the next entry of the loop
    top_dir,           \* flat mode: the detected top directory
    extracted_files,   \* tar_gz.rs: HashSet of written files
    pending_symlinks,  \* Vec<QueuedSymlink>
    result,            \* "running", "ok", "err"
    error,             \* the error returned, "none" if none
    log                \* history: what each loop iteration did

extractVars == <<fs, fs0, archive, format, mode, dest_dir, pc, pos, top_dir,
                 extracted_files, pending_symlinks, result, error, log>>

(* State of one archive creation: backup.rs create_backup_archive and      *)
(* archive/zip_ops.rs append_dir_tree_to_zip                               *)
VARIABLES
    run,               \* how many times the archive has been extracted so far
    pack_pc,           \* "idle", "create", "meta", "walk", "finish", "done"
    packer,            \* "tree": append_dir_tree_to_zip alone, "backup": create_backup_archive
    walk,              \* the items walkdir::WalkDir has yet to yield, in its order
    writer,            \* the entries handed to the ZipWriter so far
    backup_file,       \* the file at backup_path: "absent", "open", "finalized"
    pack_result,       \* "none", "running", "ok" (Ok(backup_path)), "err"
    pack_error         \* the error returned, "none" if none

packVars == <<pack_pc, packer, walk, writer, backup_file, pack_result, pack_error>>

\* no archive is being created
PackIdle ==
    /\ pack_pc = "idle"
    /\ packer = "none"
    /\ walk = <<>>
    /\ writer = <<>>
    /\ backup_file = "absent"
    /\ pack_result = "none"
    /\ pack_error = "none"

(* State of config.rs: the lock, the cache, the file, and the calls of     *)
(* with_config_mut in progress                                             *)
VARIABLES
    CONFIG_LOCK,       \* the caller holding the mutex, 0 when it is free
    CONFIG_CACHE,      \* Option: None until get_config_cache has set it
    config_file,       \* the file at config_path(): missing, valid with a config, or torn
    config0,           \* the configuration before the first call (history)
    calls              \* per caller of with_config_mut: pc, updated, outcome

configVars == <<CONFIG_LOCK, CONFIG_CACHE, config_file, config0, calls>>

\* nobody uses the configuration
ConfigIdle ==
    /\ CONFIG_LOCK = 0
    /\ CONFIG_CACHE = None
    /\ config_file = [st |-> "missing", v |-> <<>>]
    /\ config0 = <<>>
    /\ calls = <<>>

(* State of process/manager.rs: the process map and one pass of            *)
(* get_all_statuses                                                        *)
VARIABLES
    clock,             \* Instant::now(), in seconds
    processes,         \* ProcessManager.processes: instance id -> InstanceProcess
    pass_pc,           \* get_all_statuses: "idle", "loop"
    now,               \* get_all_statuses: let now = Instant::now()
    instances,         \* get_all_statuses: the snapshot still to be looked at
    results,           \* get_all_statuses: id -> running, as returned
    stale_instances,   \* get_all_statuses: ids to be removed at the end
    events,            \* the RuntimeEvents emitted so far
    starts,            \* how many times set_process has been called
    failing_since,     \* id -> when the current run of failed checks began (history)
    stale_pids,        \* the pid each of stale_instances had in the snapshot (history)
    watchers           \* the tasks waiting for a child to exit: [id, expected_pid]

monitorVars == <<clock, processes, pass_pc, now, instances, results, stale_instances,
                 events, starts, failing_since, stale_pids, watchers>>

EmptyMap == [i \in {} |-> <<>>]

\* nothing is tracked and no pass is running
MonitorIdle ==
    /\ clock = 0
    /\ processes = EmptyMap
    /\ pass_pc = "idle"
    /\ now = 0
    /\ instances = <<>>
    /\ results = EmptyMap
    /\ stale_instances = <<>>
    /\ events = <<>>
    /\ starts = 0
    /\ failing_since = EmptyMap
    /\ stale_pids = <<>>
    /\ watchers = {}

(* State of one call of a function of archive/path.rs taken on its own      *)
VARIABLES
    callee,            \* the function called, "none" when there is no such call
    args,              \* its arguments
    ret                \* whether it has returned, and the Option it returned

pureVars == <<callee, args, ret>>

Pending == [returned |-> FALSE, value |-> None]

Returned(value) == [returned |-> TRUE, value |-> value]

\* no function of archive/path.rs is called on its own
PureIdle ==
    /\ callee = "none"
    /\ args = <<>>
    /\ ret = Pending

(* State of the commands on instances and versions: instance/lifecycle.rs,   *)
(* instance/deploy.rs, instance/crud.rs, download.rs, backup.rs              *)
VARIABLES
    tasks,             \* the calls in flight: call -> its position and locals
    children,          \* the child processes spawned: pid -> "starting", "serving", "exited"
    app_config,        \* AppConfig: instances (id -> version) and installed_versions
    disk               \* what the calls look at on disk for the instance

appVars == <<tasks, children, app_config, disk>>

\* no command is running, nothing is configured or deployed
AppIdle ==
    /\ tasks = [c \in {} |-> <<>>]
    /\ children = [p \in {} |-> <<>>]
    /\ app_config = [instances |-> [i \in {} |-> <<>>], installed_versions |-> {}]
    /\ disk = [marker |-> "missing", main_py |-> FALSE, venv_python |-> FALSE,
               data |-> "missing", zips |-> {}, backup |-> "missing"]

\* what the steps of an extraction leave alone
restVars == <<run, packVars, configVars, monitorVars, pureVars, appVars>>

vars == <<extractVars, run, packVars, configVars, monitorVars, pureVars, appVars>>

MaxEntries == 2

\* ---- names used by the archives and file systems explored ----
S_T == <<"T">>

S_a == <<"a">>

S_b == <<"b">>

S_d == <<"d">>

S_s == <<"s">>

S_f == <<"f">>

S_h == <<"h">>

S_l == <<"l">>

S_x == <<"x">>

S_out == <<"o","u","t">>

S_etc == <<"e","t","c">>

S_passwd == <<"p","a","s","s","w","d">>

Raw(segs) == JoinSegs(segs)

PasswdTarget == Raw(<<DotDot, DotDot, S_etc, S_passwd>>)

Entry(path, kind, target, data, size) ==
    [path |-> path, kind |-> kind, target |-> target, data |-> data,
     size |-> size, mode |-> Some(420)]

FileE(path) == Entry(path, "file", <<>>, <<7>>, 1)

ShortE(path) == Entry(path, "file", <<>>, <<7>>, 2)

DirE(path) == Entry(path, "dir", <<>>, <<>>, 0)

SymE(path, target) == Entry(path, "symlink", target, <<>>, 0)

LinkE(path, target) == Entry(path, "hardlink", target, <<>>, 0)

\* a tar entry of a type other than directory, file, symlink or hard link
FifoE(path) == Entry(path, "fifo", <<>>, <<>>, 0)

\* ---- file systems the call may start in ----
MkFs(tree, ino) == [tree |-> tree, ino |-> ino]

BaseTree ==
    (<<>> :> DirNode) @@ (<<S_inst>> :> DirNode) @@ (<<S_out>> :> DirNode)
    @@ (<<S_etc>> :> DirNode)

NoBytes == [i \in {} |-> <<>>]

FreshFs == MkFs(BaseTree, NoBytes)

\* /etc/passwd exists
PasswdFs ==
    MkFs(BaseTree @@ (<<S_etc, S_passwd>> :> FileNode(<<S_etc, S_passwd>>)),
         (<<S_etc, S_passwd>> :> <<1>>))

\* the destination holds link d to the directory /out
DirLinkFs == MkFs(BaseTree @@ (<<S_inst, S_d>> :> LinkNode(Raw(<<<<>>, S_out>>))), NoBytes)

\* the destination holds link d to the missing /out/x
DanglingDirLinkFs ==
    MkFs(BaseTree @@ (<<S_inst, S_d>> :> LinkNode(Raw(<<<<>>, S_out, S_x>>))), NoBytes)

\* the destination holds link s to the missing /out/x and link d to itself
DanglingLastFs ==
    MkFs(BaseTree @@ (<<S_inst, S_s>> :> LinkNode(Raw(<<<<>>, S_out, S_x>>)))
                  @@ (<<S_inst, S_d>> :> LinkNode(S_d)), NoBytes)

\* the destination holds a file f from an earlier run, link s to it, and
\* link d to the directory b inside the destination
UsedFs ==
    MkFs(BaseTree @@ (<<S_inst, S_f>> :> FileNode(<<S_inst, S_f>>))
                  @@ (<<S_inst, S_b>> :> DirNode)
                  @@ (<<S_inst, S_s>> :> LinkNode(S_f))
                  @@ (<<S_inst, S_d>> :> LinkNode(S_b)),
         (<<S_inst, S_f>> :> <<5>>))

\* the destination holds, from an earlier run, the file a and its hard link h
LinkedFs ==
    MkFs(BaseTree @@ (<<S_inst, S_a>> :> FileNode(<<S_inst, S_a>>))
                  @@ (<<S_inst, S_h>> :> FileNode(<<S_inst, S_a>>)),
         (<<S_inst, S_a>> :> <<7>>))

\* ---- archives explored: every sequence of 1..MaxEntries entries of a menu ----
FlatMenu ==
    { DirE(Raw(<<S_T, <<>>>>)), FileE(S_T), FileE(Raw(<<S_T, S_a>>)),
      ShortE(Raw(<<S_T, S_b>>)), FileE(S_b), SymE(Raw(<<S_T, S_l>>), S_a),
      LinkE(Raw(<<S_T, S_h>>), Raw(<<S_T, S_a>>)) }

UnsafeMenu ==
    { FileE(S_a), SymE(S_l, S_a), FileE(Raw(<<S_T, DotDot, S_x>>)),
      FileE(Raw(<<<<>>, S_x>>)), DirE(<<"C", ":", "/", "x">>),
      FileE(<<"\\", "x">>), LinkE(DotDot, S_a), FileE(Raw(<<S_venv, DotDot, S_x>>)) }

SeedMenu ==
    { FileE(Raw(<<S_d, S_x>>)), DirE(Raw(<<S_d, S_x, <<>>>>)), FileE(S_s),
      DirE(Raw(<<S_s, <<>>>>)), FileE(S_a), LinkE(S_s, S_a),
      SymE(Raw(<<S_d, S_l>>), S_a) }

LinkMenu ==
    { FileE(S_a), LinkE(S_h, S_a), LinkE(Raw(<<S_b, S_h>>), Raw(<<DotDot, S_a>>)),
      LinkE(S_l, S_f), LinkE(S_b, S_a), SymE(S_l, PasswdTarget),
      SymE(Raw(<<S_b, S_l>>), PasswdTarget),
      SymE(Raw(<<S_a, S_b, S_l>>), PasswdTarget) }

BackupMenu ==
    { FileE(S_backup_toml), FileE(Raw(<<S_venv, S_x>>)), FileE(Raw(<<S_data, S_x>>)),
      FileE(S_a), SymE(Raw(<<S_venv, S_l>>), S_x), DirE(Raw(<<S_data, <<>>>>)),
      LinkE(Raw(<<S_data, S_h>>), Raw(<<S_data, S_x>>)) }

AbsTarget == Raw(<<<<>>, S_x>>)

DriveTarget == <<"C", ":", "/", "x">>

\* entries the extractor has to refuse, some of them below venv/
StrictMenu ==
    { FileE(S_a), SymE(S_l, <<>>), SymE(S_l, AbsTarget), SymE(S_l, DriveTarget),
      LinkE(S_h, <<>>), LinkE(S_h, AbsTarget), LinkE(S_h, DriveTarget),
      SymE(Raw(<<S_venv, S_l>>), AbsTarget), LinkE(Raw(<<S_venv, S_h>>), DriveTarget),
      FifoE(S_f), FifoE(Raw(<<S_venv, S_f>>)) }

\* symlink entries whose targets hold `..`, a plain one, a directory, and
\* hard links to the symlink entry and to the directory entry
ChainMenu ==
    { SymE(Raw(<<S_d, S_x>>), DotDot), SymE(S_l, Raw(<<S_d, S_x, DotDot>>)),
      SymE(S_s, S_a), DirE(Raw(<<S_b, <<>>>>)), LinkE(S_h, S_s), LinkE(S_h, S_b) }

\* archives of three entries explored besides: below the top directory T a
\* file a, a file named T like the top directory, and a hard link to a
LongerFlat ==
    { <<FileE(Raw(<<S_T, S_a>>)), FileE(Raw(<<S_T, S_T>>)),
        LinkE(Raw(<<S_T, S_h>>), Raw(<<S_T, S_a>>))>> }

Scenarios ==
    { [fss |-> {FreshFs}, menu |-> FlatMenu, modes |-> {"flat"}, longer |-> LongerFlat],
      [fss |-> {FreshFs}, menu |-> UnsafeMenu, modes |-> {"flat", "backup"}, longer |-> {}],
      [fss |-> {DirLinkFs, DanglingDirLinkFs, DanglingLastFs, UsedFs},
       menu |-> SeedMenu, modes |-> {"backup"}, longer |-> {}],
      [fss |-> {FreshFs, PasswdFs, UsedFs, LinkedFs}, menu |-> LinkMenu,
       modes |-> {"flat", "backup"}, longer |-> {}],
      [fss |-> {FreshFs}, menu |-> BackupMenu, modes |-> {"backup", "data"}, longer |-> {}],
      [fss |-> {FreshFs}, menu |-> StrictMenu, modes |-> {"flat", "backup"}, longer |-> {}],
      [fss |-> {FreshFs}, menu |-> ChainMenu, modes |-> {"flat"}, longer |-> {}] }

SeqsUpTo(S, n) == UNION { [1..k -> S] : k \in 1..n }

EndsWithSeparator(path) ==
    path # <<>> /\ (Last(path) = "/" \/ Last(path) = "\\")

\* zip_ops.rs reads the kind off the entry: is_symlink() from the unix mode,
\* is_dir() from a trailing separator of the name; zip has no hard links
ZipShaped(e) ==
    \/ e.kind = "symlink"
    \/ e.kind = "dir" /\ EndsWithSeparator(e.path)
    \/ e.kind = "file" /\ ~EndsWithSeparator(e.path)

DestOf(m) == IF m = "data" THEN CoreDir ELSE InstanceDir

Init ==
    \E sc \in Scenarios :
        /\ fs \in sc.fss
        /\ fs0 = fs
        /\ mode \in sc.modes
        /\ format \in {"tar", "zip"}
        /\ archive \in SeqsUpTo(sc.menu, MaxEntries) \cup sc.longer
        /\ format = "zip" => \A i \in 1..Len(archive) : ZipShaped(archive[i])
        /\ dest_dir = DestOf(mode)
        /\ pc = IF mode = "flat" THEN "scan" ELSE "open"
        /\ pos = 1
        /\ top_dir = None
        /\ extracted_files = {}
        /\ pending_symlinks = <<>>
        /\ result = "running"
        /\ error = "none"
        /\ log = <<>>
        /\ run = 1
        /\ PackIdle
        /\ ConfigIdle
        /\ MonitorIdle
        /\ AppIdle
        /\ PureIdle

-----------------------------------------------------------------------------
(* Steps of extract_{tar_gz,zip}_flat and extract_{tar_gz,zip}_mapped      *)

EntryPaths == [i \in 1..Len(archive) |-> archive[i].path]

\* first pass of extract_tar_gz_flat / extract_zip_flat
ScanTopDir ==
    /\ pc = "scan"
    /\ top_dir' = detect_common_top_dir(EntryPaths)
    /\ pc' = "open"
    /\ UNCHANGED <<fs, fs0, archive, format, mode, dest_dir, pos, extracted_files,
                   pending_symlinks, result, error, log>>
    /\ UNCHANGED restVars

\* head of extract_*_mapped: create_dir_all(dest_dir), open the archive
OpenArchiveWith(mk) ==
    /\ fs' = mk.fs
    /\ IF mk.ok
       THEN /\ pc' = "entries"
            /\ UNCHANGED <<result, error>>
       ELSE /\ pc' = "done"
            /\ result' = "err"
            /\ error' = mk.err

OpenArchive ==
    /\ pc = "open"
    /\ OpenArchiveWith(CreateDirAll(fs, dest_dir))
    /\ UNCHANGED <<fs0, archive, format, mode, dest_dir, pos, top_dir,
                   extracted_files, pending_symlinks, log>>
    /\ UNCHANGED restVars

\* what the loop does with the outcome o of one iteration
LoopWith(o) ==
    /\ fs' = o.fs
    /\ extracted_files' = o.extracted
    /\ pending_symlinks' = o.pending
    /\ log' = Append(log, [i |-> pos, op |-> o.op, at |-> o.at, src |-> o.src,
                           path |-> o.path,
                           ok |-> (o.res = "next"),
                           new |-> DOMAIN o.fs.tree \ DOMAIN fs.tree,
                           changed |-> (o.fs # fs),
                           kept |-> (o.extracted = extracted_files
                                     /\ o.pending = pending_symlinks)])
    /\ IF o.res = "next"
       THEN /\ pos' = pos + 1
            /\ pc' = IF pos = Len(archive) THEN "symlinks" ELSE "entries"
            /\ UNCHANGED <<result, error>>
       ELSE /\ pc' = "done"
            /\ result' = "err"
            /\ error' = o.err
            /\ UNCHANGED pos

\* one iteration of the entry loop; permOk and linkOk are the platform's
\* answers to set_permissions and hard_link
ExtractEntry ==
    /\ pc = "entries"
    /\ pos <= Len(archive)
    /\ \E permOk \in BOOLEAN, linkOk \in BOOLEAN :
         LoopWith(IF format = "tar"
                  THEN TarEntry(fs, archive[pos], extracted_files, pending_symlinks,
                                mode, top_dir, dest_dir, permOk, linkOk)
                  ELSE ZipEntry(fs, archive[pos], extracted_files, pending_symlinks,
                                mode, top_dir, dest_dir, permOk))
    /\ UNCHANGED <<fs0, archive, format, mode, dest_dir, top_dir>>
    /\ UNCHANGED restVars

SymlinkWith(c) ==
    /\ fs' = c.fs
    /\ log' = Append(log, [i |-> 0, op |-> "symlink", at |-> c.at, src |-> <<>>,
                           path |-> Head(pending_symlinks).out_path,
                           ok |-> c.ok,
                           new |-> DOMAIN c.fs.tree \ DOMAIN fs.tree,
                           changed |-> (c.fs # fs),
                           kept |-> FALSE])
    /\ IF c.ok
       THEN /\ pending_symlinks' = Tail(pending_symlinks)
            /\ UNCHANGED <<pc, result, error>>
       ELSE /\ pc' = "done"
            /\ result' = "err"
            /\ error' = c.err
            /\ UNCHANGED pending_symlinks

\* one iteration of the loop of create_queued_symlinks
CreateQueuedSymlink ==
    /\ pc = "symlinks"
    /\ pending_symlinks # <<>>
    /\ SymlinkWith(create_queued_symlink(fs, Head(pending_symlinks)))
    /\ UNCHANGED <<fs0, archive, format, mode, dest_dir, pos, top_dir, extracted_files>>
    /\ UNCHANGED restVars

\* create_queued_symlinks is through: Ok(())
ReturnOk ==
    /\ pc = "symlinks"
    /\ pending_symlinks = <<>>
    /\ pc' = "done"
    /\ result' = "ok"
    /\ UNCHANGED <<fs, fs0, archive, format, mode, dest_dir, pos, top_dir,
                   extracted_files, pending_symlinks, error, log>>
    /\ UNCHANGED restVars

Next == ScanTopDir \/ OpenArchive \/ ExtractEntry \/ CreateQueuedSymlink \/ ReturnOk

Spec == Init /\ [][Next]_vars

-----------------------------------------------------------------------------
(* Archive creation: archive/zip_ops.rs append_dir_tree_to_zip and          *)
(* backup.rs create_backup_archive                                          *)

MaxNodes == 4

\* backup.rs: data_dir = core_dir.join("data")
DataDir == Append(CoreDir, S_data)

S_a_bs_b == <<"a", "\\", "b">>

\* what may lie below data_dir: files a, b/a and `a\b`, the directory b,
\* link s to a and link d to b
SrcItem(rel, node, bytes) == [rel |-> rel, node |-> node, bytes |-> bytes]

SrcMenu ==
    { SrcItem(<<S_a>>, "file", <<7>>),
      SrcItem(<<S_b>>, "dir", <<>>),
      SrcItem(<<S_b, S_a>>, "file", <<8>>),
      SrcItem(<<S_a_bs_b>>, "file", <<9>>),
      SrcItem(<<S_s>>, "link", S_a),
      SrcItem(<<S_d>>, "link", S_b) }

SrcNode(item) ==
    IF item.node = "dir" THEN DirNode
    ELSE IF item.node = "file" THEN FileNode(DataDir \o item.rel)
    ELSE LinkNode(item.bytes)

\* the file system whose data_dir holds the items of S
SrcFs(S) ==
    MkFs(BaseTree @@ (CoreDir :> DirNode) @@ (DataDir :> DirNode)
         @@ [q \in { DataDir \o item.rel : item \in S } |->
                SrcNode(CHOOSE item \in S : DataDir \o item.rel = q)],
         [q \in { DataDir \o item.rel : item \in { x \in S : x.node = "file" } } |->
                (CHOOSE item \in S : DataDir \o item.rel = q).bytes])

SrcTrees ==
    { S \in SUBSET SrcMenu :
        /\ Cardinality(S) <= MaxNodes
        /\ \A item \in S : Len(item.rel) > 1 =>
               \E up \in S : up.rel = Front(item.rel) /\ up.node = "dir" }

\* the paths at and below dir, which walkdir yields without following links
Below(t, dir) == { q \in DOMAIN t : IsPrefix(dir, q) }

\* the orders in which walkdir::WalkDir can yield them: the directory first,
\* then depth first, the children of a directory in any order
WalkOrders(t, dir) ==
    { w \in [1..Cardinality(Below(t, dir)) -> Below(t, dir)] :
        /\ w[1] = dir
        /\ \A i, j \in DOMAIN w : i # j => w[i] # w[j]
        /\ \A i \in DOMAIN w : i > 1 => IsPrefix(Parent(w[i]), w[i - 1]) }

\* path.strip_prefix(dir)
RelativeTo(dir, path) == SubSeq(path, Len(dir) + 1, Len(path))

\* format!("{prefix}/{}", relative.display())
ArchivePath(prefix, relative) == prefix \o <<"/">> \o JoinSegs(relative)

\* ZipWriter::add_directory stores the name with a trailing separator
DirectoryName(name) == IF EndsWithSeparator(name) THEN name ELSE Append(name, "/")

\* a zip entry as the reader sees it: the size field is the byte count
ZipFile(name, bytes) == Entry(name, "file", <<>>, bytes, Len(bytes))

InitPack ==
    /\ \E S \in SrcTrees : fs = SrcFs(S)
    /\ fs0 = fs
    /\ archive = <<>>
    /\ format = "zip"
    /\ mode = "flat"
    /\ dest_dir = <<S_out>>
    /\ pc = "idle"
    /\ pos = 1
    /\ top_dir = None
    /\ extracted_files = {}
    /\ pending_symlinks = <<>>
    /\ result = "none"
    /\ error = "none"
    /\ log = <<>>
    /\ run = 1
    /\ packer \in {"tree", "backup"}
    /\ pack_pc = IF packer = "backup" THEN "create" ELSE "walk"
    /\ backup_file = IF packer = "backup" THEN "absent" ELSE "open"
    /\ walk \in WalkOrders(fs.tree, DataDir)
    /\ writer = <<>>
    /\ pack_result = "running"
    /\ pack_error = "none"
    /\ ConfigIdle
    /\ MonitorIdle
    /\ AppIdle
    /\ PureIdle

\* an error leaves create_backup_archive: the ZipWriter is dropped, and
\* whether its destructor writes the central directory is the zip crate's
\* affair; nothing removes the file at backup_path
PackFails(err) ==
    /\ pack_pc' = "done"
    /\ pack_result' = "err"
    /\ pack_error' = err
    /\ IF packer = "backup" /\ backup_file = "open"
       THEN backup_file' \in {"partial", "finalized"}
       ELSE UNCHANGED backup_file

\* backup.rs 59-60: File::create(&backup_path), ZipWriter::new(file)
CreateBackupFile ==
    /\ pack_pc = "create"
    /\ \E createOk \in BOOLEAN :
          IF createOk
          THEN /\ backup_file' = "open"
               /\ pack_pc' = "meta"
               /\ UNCHANGED <<pack_result, pack_error>>
          ELSE PackFails("Failed to create backup archive")
    /\ UNCHANGED <<appVars, extractVars, run, pureVars, configVars, monitorVars, packer, walk, writer>>

\* backup.rs 63-72: start_file("backup.toml"), write_all(metadata)
WriteMetadata ==
    /\ pack_pc = "meta"
    /\ \E writeOk \in BOOLEAN :
          IF writeOk
          THEN /\ writer' = Append(writer, ZipFile(S_backup_toml, <<1>>))
               /\ pack_pc' = IF Exists(fs.tree, DataDir) THEN "walk" ELSE "finish"
               /\ UNCHANGED <<backup_file, pack_result, pack_error>>
          ELSE /\ PackFails("Failed to add metadata")
               /\ UNCHANGED writer
    /\ UNCHANGED <<appVars, extractVars, run, pureVars, configVars, monitorVars, packer, walk>>

\* the walk goes on with the next item, or append_dir_tree_to_zip returns Ok
PackGoesOn ==
    /\ walk' = Tail(walk)
    /\ IF Len(walk) > 1
       THEN UNCHANGED <<pack_pc, pack_result, backup_file>>
       ELSE IF packer = "backup"
            THEN /\ pack_pc' = "finish"
                 /\ UNCHANGED <<pack_result, backup_file>>
            ELSE /\ pack_pc' = "done"
                 /\ pack_result' = "ok"
                 /\ backup_file' = "finalized"
    /\ UNCHANGED pack_error

\* zip_ops.rs 23-42: one iteration of the loop over WalkDir for item path;
\* fault is the call of the iteration that the platform lets fail, if any
PackItem(path, fault) ==
    IF IsDir(fs.tree, path) /\ path # DataDir
    THEN IF fault = "write"
         THEN PackFails("add_directory") /\ UNCHANGED <<writer, walk>>
         ELSE /\ writer' = Append(writer,
                      DirE(DirectoryName(ArchivePath(S_data, RelativeTo(DataDir, path)))))
              /\ PackGoesOn
    ELSE IF IsFile(fs.tree, path)
    THEN IF fault = "write"
         THEN PackFails("start_file") /\ UNCHANGED <<writer, walk>>
         ELSE IF fault \in {"open", "copy"}
         THEN /\ writer' = Append(writer,
                      ZipFile(ArchivePath(S_data, RelativeTo(DataDir, path)), <<>>))
              /\ PackFails(fault)
              /\ UNCHANGED walk
         ELSE /\ writer' = Append(writer,
                      ZipFile(ArchivePath(S_data, RelativeTo(DataDir, path)),
                              BytesAt(fs, path)))
              /\ PackGoesOn
    ELSE /\ fault = "none"
         /\ UNCHANGED writer
         /\ PackGoesOn

PackEntry ==
    /\ pack_pc = "walk"
    /\ walk # <<>>
    /\ \E fault \in {"none", "write", "open", "copy"} : PackItem(Head(walk), fault)
    /\ UNCHANGED <<appVars, extractVars, run, pureVars, configVars, monitorVars, packer>>

\* backup.rs 80-87: writer.finish(), Ok(backup_path)
FinishArchive ==
    /\ pack_pc = "finish"
    /\ \E finishOk \in BOOLEAN :
          IF finishOk
          THEN /\ backup_file' = "finalized"
               /\ pack_pc' = "done"
               /\ pack_result' = "ok"
               /\ UNCHANGED pack_error
          ELSE PackFails("Failed to finalize backup archive")
    /\ UNCHANGED <<appVars, extractVars, run, pureVars, configVars, monitorVars, packer, walk, writer>>

\* zip_ops.rs extract_zip_flat is called on the archive just written, with a
\* fresh directory as dest_dir
ExtractPacked ==
    /\ pack_pc = "done"
    /\ pack_result = "ok"
    /\ pc = "idle"
    /\ archive' = writer
    /\ pc' = "scan"
    /\ result' = "running"
    /\ UNCHANGED <<fs, fs0, format, mode, dest_dir, pos, top_dir, extracted_files,
                   pending_symlinks, error, log, restVars>>

NextPack ==
    \/ CreateBackupFile \/ WriteMetadata \/ PackEntry \/ FinishArchive
    \/ ExtractPacked \/ ScanTopDir \/ OpenArchive \/ ExtractEntry \/ ReturnOk

SpecPack == InitPack /\ [][NextPack]_vars

-----------------------------------------------------------------------------
(* config.rs: with_config_mut                                               *)

MaxCallers == 3

\* the threads calling with_config_mut; caller c's closure appends c to the
\* configuration (as an instance is added, a version installed, ...)
Callers == 1..MaxCallers

FileMissing == [st |-> "missing", v |-> <<>>]

FileWith(config) == [st |-> "valid", v |-> config]

\* what a failed fs::write may leave behind
FileTorn == [st |-> "torn", v |-> <<>>]

\* AppConfig::default()
DefaultConfig == <<>>

Call(at, updated, outcome) == [pc |-> at, updated |-> updated, outcome |-> outcome]

InitConfig ==
    /\ config_file \in {FileMissing, FileWith(<<>>), FileWith(<<0>>)}
    /\ CONFIG_CACHE \in {None} \cup
           (IF config_file.st = "valid" THEN {Some(config_file.v)} ELSE {})
    /\ config0 = config_file.v
    /\ CONFIG_LOCK = 0
    /\ calls = [c \in Callers |-> Call("lock", <<>>, "none")]
    /\ fs = FreshFs
    /\ fs0 = fs
    /\ archive = <<>>
    /\ format = "zip"
    /\ mode = "flat"
    /\ dest_dir = <<S_out>>
    /\ pc = "idle"
    /\ pos = 1
    /\ top_dir = None
    /\ extracted_files = {}
    /\ pending_symlinks = <<>>
    /\ result = "none"
    /\ error = "none"
    /\ log = <<>>
    /\ run = 1
    /\ PackIdle
    /\ MonitorIdle
    /\ AppIdle
    /\ PureIdle

\* Mutex::lock that lets every caller in
MutexFree_always(lock) == TRUE

\* Mutex::lock returns only when nobody holds the mutex
MutexFree(lock) == lock = 0

\* config.rs 47: let _guard = CONFIG_LOCK.lock()
ConfigLock ==
    \E c \in Callers :
        /\ calls[c].pc = "lock"
        /\ MutexFree(CONFIG_LOCK)
        /\ CONFIG_LOCK' = c
        /\ calls' = [calls EXCEPT ![c].pc = "cache"]
        /\ UNCHANGED <<CONFIG_CACHE, config_file, config0>>
        /\ UNCHANGED <<appVars, extractVars, run, pureVars, packVars, monitorVars>>

\* config.rs 13-22: load_config_from_disk, which writes the default
\* configuration when the file is missing
LoadFromDisk(c, saveOk) ==
    IF config_file.st = "missing"
    THEN IF saveOk
         THEN /\ config_file' = FileWith(DefaultConfig)
              /\ CONFIG_CACHE' = Some(DefaultConfig)
              /\ calls' = [calls EXCEPT ![c].pc = "read"]
         ELSE /\ config_file' \in {FileMissing, FileTorn}
              /\ calls' = [calls EXCEPT ![c] = Call("return", <<>>, "load failed")]
              /\ UNCHANGED CONFIG_CACHE
    ELSE IF config_file.st = "valid"
    THEN /\ CONFIG_CACHE' = Some(config_file.v)
         /\ calls' = [calls EXCEPT ![c].pc = "read"]
         /\ UNCHANGED config_file
    ELSE /\ calls' = [calls EXCEPT ![c] = Call("return", <<>>, "load failed")]
         /\ UNCHANGED <<CONFIG_CACHE, config_file>>

\* config.rs 48, 30-41: let cache = get_config_cache()?
ConfigGetCache ==
    \E c \in Callers :
        /\ calls[c].pc = "cache"
        /\ IF CONFIG_CACHE.some
           THEN /\ calls' = [calls EXCEPT ![c].pc = "read"]
                /\ UNCHANGED <<CONFIG_CACHE, config_file>>
           ELSE \E saveOk \in BOOLEAN : LoadFromDisk(c, saveOk)
        /\ UNCHANGED <<CONFIG_LOCK, config0>>
        /\ UNCHANGED <<appVars, extractVars, run, pureVars, packVars, monitorVars>>

\* config.rs 50-55: current = Arc::clone(cache.read()), updated = clone
ConfigRead ==
    \E c \in Callers :
        /\ calls[c].pc = "read"
        /\ calls' = [calls EXCEPT ![c] = Call("apply", CONFIG_CACHE.v, "none")]
        /\ UNCHANGED <<CONFIG_LOCK, CONFIG_CACHE, config_file, config0>>
        /\ UNCHANGED <<appVars, extractVars, run, pureVars, packVars, monitorVars>>

\* config.rs 56: let result = f(&mut updated)?
ConfigApply ==
    \E c \in Callers, closureOk \in BOOLEAN :
        /\ calls[c].pc = "apply"
        /\ calls' = [calls EXCEPT ![c] =
                        IF closureOk
                        THEN Call("save", Append(calls[c].updated, c), "none")
                        ELSE Call("return", calls[c].updated, "closure failed")]
        /\ UNCHANGED <<CONFIG_LOCK, CONFIG_CACHE, config_file, config0>>
        /\ UNCHANGED <<appVars, extractVars, run, pureVars, packVars, monitorVars>>

\* with_config_mut that replaces the cached value before it saves
ConfigSave_cache_first ==
    \E c \in Callers, saveOk \in BOOLEAN :
        /\ calls[c].pc = "save"
        /\ CONFIG_CACHE' = Some(calls[c].updated)
        /\ IF saveOk
           THEN /\ config_file' = FileWith(calls[c].updated)
                /\ calls' = [calls EXCEPT ![c].pc = "store"]
           ELSE /\ config_file' \in {config_file, FileTorn}
                /\ calls' = [calls EXCEPT ![c] =
                                Call("return", calls[c].updated, "save failed")]
        /\ UNCHANGED <<CONFIG_LOCK, config0>>
        /\ UNCHANGED <<appVars, extractVars, run, pureVars, packVars, monitorVars>>

\* config.rs 57, 24-28: save_config_to_disk(&updated)?
ConfigSave ==
    \E c \in Callers, saveOk \in BOOLEAN :
        /\ calls[c].pc = "save"
        /\ IF saveOk
           THEN /\ config_file' = FileWith(calls[c].updated)
                /\ calls' = [calls EXCEPT ![c].pc = "store"]
           ELSE /\ config_file' \in {config_file, FileTorn}
                /\ calls' = [calls EXCEPT ![c] =
                                Call("return", calls[c].updated, "save failed")]
        /\ UNCHANGED <<CONFIG_LOCK, CONFIG_CACHE, config0>>
        /\ UNCHANGED <<appVars, extractVars, run, pureVars, packVars, monitorVars>>

\* config.rs 59: *cache.write() = Arc::new(updated)
ConfigStore ==
    \E c \in Callers :
        /\ calls[c].pc = "store"
        /\ CONFIG_CACHE' = Some(calls[c].updated)
        /\ calls' = [calls EXCEPT ![c] = Call("return", calls[c].updated, "ok")]
        /\ UNCHANGED <<CONFIG_LOCK, config_file, config0>>
        /\ UNCHANGED <<appVars, extractVars, run, pureVars, packVars, monitorVars>>

\* with_config_mut returns: _guard is dropped
ConfigReturn ==
    \E c \in Callers :
        /\ calls[c].pc = "return"
        /\ CONFIG_LOCK' = IF CONFIG_LOCK = c THEN 0 ELSE CONFIG_LOCK
        /\ calls' = [calls EXCEPT ![c].pc = "done"]
        /\ UNCHANGED <<CONFIG_CACHE, config_file, config0>>
        /\ UNCHANGED <<appVars, extractVars, run, pureVars, packVars, monitorVars>>

NextConfig ==
    \/ ConfigLock \/ ConfigGetCache \/ ConfigRead \/ ConfigApply
    \/ ConfigSave \/ ConfigStore \/ ConfigReturn

SpecConfig == InitConfig /\ [][NextConfig]_vars

-----------------------------------------------------------------------------
(* process/mod.rs, process/manager.rs: tracking and health checks           *)

HEALTH_CHECK_GRACE_PERIOD == 120

MAX_BACKOFF == 30

MONITOR_INTERVAL == 5

MaxClock == 130

MaxStarts == 2

InstanceIds == {"i1"}

Min(a, b) == IF a <= b THEN a ELSE b

MapPut(map, k, v) == [x \in DOMAIN map \cup {k} |-> IF x = k THEN v ELSE map[x]]

MapDel(map, k) == [x \in DOMAIN map \ {k} |-> map[x]]

\* InstanceProcess::new
InstanceProcessNew(pid, dashboard_enabled) ==
    [pid |-> pid, dashboard_enabled |-> dashboard_enabled, pid_exited |-> FALSE,
     health_failure_since |-> None, next_check_at |-> None, failure_count |-> 0]

\* InstanceProcess::calculate_backoff
calculate_backoff(info) == Min(2 ^ Min(info.failure_count, 5), MAX_BACKOFF)

\* InstanceProcess::clear_health_failure_state
clear_health_failure_state(info) ==
    [info EXCEPT !.health_failure_since = None, !.next_check_at = None,
                 !.failure_count = 0]

\* Instant::duration_since saturates at zero
duration_since(t, earlier) == IF t >= earlier THEN t - earlier ELSE 0

\* manager.rs 66-68: failure_duration >= HEALTH_CHECK_GRACE_PERIOD
GraceExceeded(info, t) ==
    duration_since(t, info.health_failure_since.v) >= HEALTH_CHECK_GRACE_PERIOD

\* manager.rs 60-63: the failure is counted, the start of the run kept
CountFailure(info, t) ==
    [info EXCEPT !.health_failure_since = IF info.health_failure_since.some
                                          THEN info.health_failure_since ELSE Some(t),
                 !.failure_count = info.failure_count + 1]

\* ProcessManager::handle_health_failure: the map afterwards and the answer
handle_health_failure(procs, id, t) ==
    IF id \notin DOMAIN procs THEN [procs |-> procs, alive |-> FALSE]
    ELSE With(CountFailure(procs[id], t), LAMBDA info :
             IF GraceExceeded(info, t)
             THEN [procs |-> MapPut(procs, id, info), alive |-> FALSE]
             ELSE [procs |-> MapPut(procs, id,
                                    [info EXCEPT !.next_check_at =
                                                    Some(t + calculate_backoff(info))]),
                   alive |-> TRUE])

\* manager.rs 198-212: one element of the snapshot
Snapshot(id, info) ==
    [id |-> id, pid |-> info.pid, dashboard_enabled |-> info.dashboard_enabled,
     next_check_at |-> info.next_check_at, pid_exited |-> info.pid_exited]

ExtractIdle ==
    /\ fs = FreshFs
    /\ fs0 = fs
    /\ archive = <<>>
    /\ format = "zip"
    /\ mode = "flat"
    /\ dest_dir = <<S_out>>
    /\ pc = "idle"
    /\ pos = 1
    /\ top_dir = None
    /\ extracted_files = {}
    /\ pending_symlinks = <<>>
    /\ result = "none"
    /\ error = "none"
    /\ log = <<>>
    /\ run = 1

InitMonitor ==
    /\ MonitorIdle
    /\ AppIdle
    /\ PureIdle
    /\ ExtractIdle
    /\ PackIdle
    /\ ConfigIdle

\* time passes between two passes of get_all_statuses
Advance ==
    /\ pass_pc = "idle"
    /\ \E d \in {MONITOR_INTERVAL, MAX_BACKOFF} :
          /\ clock + d <= MaxClock
          /\ clock' = clock + d
    /\ UNCHANGED <<processes, pass_pc, now, instances, results, stale_instances,
                   events, starts, failing_since, stale_pids, watchers>>
    /\ UNCHANGED <<appVars, extractVars, run, pureVars, packVars, configVars>>

\* ProcessManager::set_process, called when an instance has been started
\* (lifecycle.rs 94-103), and the task spawned to wait for the child
\* (lifecycle.rs 124-133)
SetProcess ==
    /\ starts < MaxStarts
    /\ \E id \in InstanceIds, dashboard_enabled \in BOOLEAN :
          /\ processes' = MapPut(processes, id,
                                 InstanceProcessNew(starts + 1, dashboard_enabled))
          /\ events' = Append(events, [id |-> id, reason |-> "ProcessTracked"])
          /\ failing_since' = MapDel(failing_since, id)
          /\ watchers' = watchers \cup {[id |-> id, expected_pid |-> starts + 1]}
    /\ starts' = starts + 1
    /\ UNCHANGED <<clock, pass_pc, now, instances, results, stale_instances, stale_pids>>
    /\ UNCHANGED <<appVars, extractVars, run, pureVars, packVars, configVars>>

\* ProcessManager::remove, called when an instance is stopped
RemoveProcess ==
    /\ \E id \in DOMAIN processes :
          /\ processes' = MapDel(processes, id)
          /\ events' = Append(events, [id |-> id, reason |-> "ProcessRemoved"])
          /\ failing_since' = MapDel(failing_since, id)
    /\ UNCHANGED <<clock, pass_pc, now, instances, results, stale_instances, starts,
                   stale_pids, watchers>>
    /\ UNCHANGED <<appVars, extractVars, run, pureVars, packVars, configVars>>

\* ProcessManager::mark_pid_exited that does not compare the pid
mark_pid_exited_any(procs, instance_id, expected_pid) ==
    IF instance_id \in DOMAIN procs
    THEN [procs EXCEPT ![instance_id].pid_exited = TRUE]
    ELSE procs

\* ProcessManager::mark_pid_exited
mark_pid_exited(procs, instance_id, expected_pid) ==
    IF instance_id \in DOMAIN procs /\ procs[instance_id].pid = expected_pid
    THEN [procs EXCEPT ![instance_id].pid_exited = TRUE]
    ELSE procs

\* lifecycle.rs 128-133: the child a task waits for has exited, the task
\* calls mark_pid_exited and ends
MarkPidExited ==
    /\ \E w \in watchers :
          /\ w.expected_pid \in DOMAIN children => children[w.expected_pid].state = "exited"
          /\ processes' = mark_pid_exited(processes, w.id, w.expected_pid)
          /\ watchers' = watchers \ {w}
    /\ UNCHANGED <<clock, pass_pc, now, instances, results, stale_instances, events,
                   starts, failing_since, stale_pids>>
    /\ UNCHANGED <<appVars, extractVars, run, pureVars, packVars, configVars>>

SnapshotOf(ids) ==
    IF ids = {} THEN <<>>
    ELSE <<Snapshot(CHOOSE id \in ids : TRUE, processes[CHOOSE id \in ids : TRUE])>>

\* manager.rs 193-215: now, the snapshot under the read lock, empty results
PassSnapshot ==
    /\ pass_pc = "idle"
    /\ pass_pc' = "loop"
    /\ now' = clock
    /\ instances' = SnapshotOf(DOMAIN processes)
    /\ results' = EmptyMap
    /\ stale_instances' = <<>>
    /\ stale_pids' = <<>>
    /\ UNCHANGED <<clock, processes, events, starts, failing_since, watchers>>
    /\ UNCHANGED <<appVars, extractVars, run, pureVars, packVars, configVars>>

\* the answer for one element: running or not, stale or not
Answer(item, running) ==
    /\ results' = MapPut(results, item.id, running)
    /\ stale_instances' = IF running THEN stale_instances
                          ELSE Append(stale_instances, item.id)
    /\ stale_pids' = IF running THEN stale_pids ELSE Append(stale_pids, item.pid)

\* manager.rs 218-233: an instance without dashboard; os_alive is the
\* answer of is_process_alive
CheckPlain(item, os_alive) ==
    IF ~item.pid_exited /\ os_alive
    THEN /\ processes' = IF item.id \in DOMAIN processes
                         THEN [processes EXCEPT ![item.id] =
                                   clear_health_failure_state(processes[item.id])]
                         ELSE processes
         /\ failing_since' = MapDel(failing_since, item.id)
         /\ Answer(item, TRUE)
    ELSE /\ UNCHANGED <<processes, failing_since>>
         /\ Answer(item, FALSE)

\* manager.rs 283-289: the health check failed
CheckFailed(item, h) ==
    /\ processes' = h.procs
    /\ failing_since' = IF item.id \in DOMAIN processes /\ item.id \notin DOMAIN failing_since
                        THEN MapPut(failing_since, item.id, now)
                        ELSE failing_since
    /\ Answer(item, h.alive)

\* manager.rs 236-290: an instance with dashboard; healthy is the answer of
\* check_health
CheckDashboard(item, healthy) ==
    IF item.next_check_at.some /\ now < item.next_check_at.v
    THEN /\ UNCHANGED <<processes, failing_since>>
         /\ Answer(item, TRUE)
    ELSE IF healthy
    THEN /\ processes' = IF item.id \in DOMAIN processes
                         THEN [processes EXCEPT ![item.id] =
                                   clear_health_failure_state(
                                       [processes[item.id] EXCEPT !.pid_exited = FALSE])]
                         ELSE processes
         /\ failing_since' = MapDel(failing_since, item.id)
         /\ Answer(item, TRUE)
    ELSE CheckFailed(item, handle_health_failure(processes, item.id, now))

\* one iteration of the loop of get_all_statuses
PassCheck ==
    /\ pass_pc = "loop"
    /\ instances # <<>>
    /\ \E healthy \in BOOLEAN :
          IF Head(instances).dashboard_enabled
          THEN CheckDashboard(Head(instances), healthy)
          ELSE CheckPlain(Head(instances), healthy)
    /\ instances' = Tail(instances)
    /\ UNCHANGED <<clock, pass_pc, now, events, starts, watchers>>
    /\ UNCHANGED <<appVars, extractVars, run, pureVars, packVars, configVars>>

\* the ids of the sequence stale that are tracked
Removable(stale) == { stale[i] : i \in DOMAIN stale } \cap DOMAIN processes

\* manager.rs 292-294, 101-118: cleanup_stale_instances, then the results
\* are returned
PassCleanup ==
    /\ pass_pc = "loop"
    /\ instances = <<>>
    /\ pass_pc' = "idle"
    /\ processes' = [id \in DOMAIN processes \ Removable(stale_instances) |-> processes[id]]
    /\ events' = IF Removable(stale_instances) = {} THEN events
                 ELSE Append(events, [id |-> CHOOSE id \in Removable(stale_instances) : TRUE,
                                      reason |-> "HealthDisconnected"])
    /\ failing_since' = [id \in DOMAIN failing_since \ Removable(stale_instances) |->
                            failing_since[id]]
    /\ UNCHANGED <<clock, now, instances, results, stale_instances, starts, stale_pids,
                   watchers>>
    /\ UNCHANGED <<appVars, extractVars, run, pureVars, packVars, configVars>>

NextMonitor ==
    \/ Advance \/ SetProcess \/ RemoveProcess \/ MarkPidExited
    \/ PassSnapshot \/ PassCheck \/ PassCleanup

SpecMonitor == InitMonitor /\ [][NextMonitor]_vars

\* starts, stops, exiting children and monitor passes with the clock standing
NextWatch ==
    \/ SetProcess \/ RemoveProcess \/ MarkPidExited
    \/ PassSnapshot \/ PassCheck \/ PassCleanup

SpecWatch == InitMonitor /\ [][NextWatch]_vars

-----------------------------------------------------------------------------
(* archive/path.rs: parse_entry_rel_path, detect_common_top_dir and         *)
(* strip_common_top_dir called on their own                                 *)

MaxRaw == 4

RawChars == {"a", ".", "/", "\\", "C", ":"}

\* every string of at most MaxRaw characters
RawStrings == UNION { [1..n -> RawChars] : n \in 0..MaxRaw }

\* a call of parse_entry_rel_path(raw) on a Unix or on a Windows build
InitParse ==
    /\ callee = "parse_entry_rel_path"
    /\ args \in [raw : RawStrings, windows : BOOLEAN]
    /\ ret = Pending
    /\ ExtractIdle
    /\ PackIdle
    /\ ConfigIdle
    /\ MonitorIdle
    /\ AppIdle

ParseEntryRelPath ==
    /\ callee = "parse_entry_rel_path"
    /\ ~ret.returned
    /\ ret' = Returned(IF args.windows THEN parse_entry_rel_path_windows(args.raw)
                       ELSE parse_entry_rel_path(args.raw))
    /\ UNCHANGED <<callee, args>>
    /\ UNCHANGED <<appVars, extractVars, run, packVars, configVars, monitorVars>>

MaxPaths == 3

\* entry names handed to the detection: below T, beside T, T alone, refused
DetectRaws ==
    { S_T, Raw(<<S_T, S_a>>), Raw(<<S_T, <<>>>>), <<"T", "\\", "b">>, S_b,
      Raw(<<S_b, S_a>>), Raw(<<Dot, S_T, S_a>>), Raw(<<<<>>, S_T, S_a>>),
      Raw(<<S_T, DotDot, S_a>>) }

\* a call of detect_common_top_dir(paths), or the first pass of
\* extract_tar_gz_flat over the entries of an archive
InitDetect ==
    /\ callee = "detect_common_top_dir"
    /\ args \in [paths : SeqsUpTo(DetectRaws, MaxPaths)]
    /\ ret = Pending
    /\ ExtractIdle
    /\ PackIdle
    /\ ConfigIdle
    /\ MonitorIdle
    /\ AppIdle

DetectCommonTopDir ==
    /\ callee = "detect_common_top_dir"
    /\ ~ret.returned
    /\ ret' = Returned(detect_common_top_dir(args.paths))
    /\ UNCHANGED <<callee, args>>
    /\ UNCHANGED <<appVars, extractVars, run, packVars, configVars, monitorVars>>

MaxSegments == 3

\* relative paths as parse_entry_rel_path returns them: one to MaxSegments
\* segments
RelativePaths == SeqsUpTo({S_T, S_a, S_b}, MaxSegments)

\* a call of strip_common_top_dir(relative, top_dir)
InitStrip ==
    /\ callee = "strip_common_top_dir"
    /\ args \in [relative : RelativePaths, top_dir : {None, Some(S_T), Some(S_b)}]
    /\ ret = Pending
    /\ ExtractIdle
    /\ PackIdle
    /\ ConfigIdle
    /\ MonitorIdle
    /\ AppIdle

StripCommonTopDir ==
    /\ callee = "strip_common_top_dir"
    /\ ~ret.returned
    /\ ret' = Returned(strip_common_top_dir(args.relative, args.top_dir))
    /\ UNCHANGED <<callee, args>>
    /\ UNCHANGED <<appVars, extractVars, run, packVars, configVars, monitorVars>>

MaxDepth == 3

\* the file systems canonicalize_longest_prefix is asked about
ProbedTrees ==
    { f.tree : f \in {FreshFs, DirLinkFs, DanglingDirLinkFs, DanglingLastFs, UsedFs,
                      LinkedFs} }

\* the absolute paths resolve_within_dir hands over: at most MaxDepth
\* components, `..` among them
ProbedPaths ==
    { AbsPath(c) : c \in SeqsUpTo({S_inst, S_d, S_s, S_x, S_f, S_b, DotDot}, MaxDepth) }

\* a call of canonicalize_longest_prefix(path) on the file system t
InitCanon ==
    /\ callee = "canonicalize_longest_prefix"
    /\ args \in [t : ProbedTrees, path : ProbedPaths]
    /\ ret = Pending
    /\ ExtractIdle
    /\ PackIdle
    /\ ConfigIdle
    /\ MonitorIdle
    /\ AppIdle

CanonicalizeLongestPrefix ==
    /\ callee = "canonicalize_longest_prefix"
    /\ ~ret.returned
    /\ ret' = Returned(canonicalize_longest_prefix(args.t, args.path))
    /\ UNCHANGED <<callee, args>>
    /\ UNCHANGED <<appVars, extractVars, run, packVars, configVars, monitorVars>>

InitPath == InitParse \/ InitDetect \/ InitStrip \/ InitCanon

NextPath ==
    \/ ParseEntryRelPath \/ DetectCommonTopDir \/ StripCommonTopDir
    \/ CanonicalizeLongestPrefix

SpecPath == InitPath /\ [][NextPath]_vars

\* a second call that goes on with the written-file set of the first
Rerun_shared ==
    /\ pc = "done"
    /\ result = "ok"
    /\ run = 1
    /\ run' = 2
    /\ fs0' = fs
    /\ pc' = IF mode = "flat" THEN "scan" ELSE "open"
    /\ pos' = 1
    /\ top_dir' = None
    /\ pending_symlinks' = <<>>
    /\ result' = "running"
    /\ error' = "none"
    /\ log' = <<>>
    /\ UNCHANGED <<appVars, fs, archive, format, mode, dest_dir, extracted_files, packVars,
                   configVars, monitorVars, pureVars>>

\* the caller extracts the same archive once more into the same destination
\* after a call that returned Ok: every local of the call starts afresh
Rerun ==
    /\ pc = "done"
    /\ result = "ok"
    /\ run = 1
    /\ run' = 2
    /\ fs0' = fs
    /\ pc' = IF mode = "flat" THEN "scan" ELSE "open"
    /\ pos' = 1
    /\ top_dir' = None
    /\ extracted_files' = {}
    /\ pending_symlinks' = <<>>
    /\ result' = "running"
    /\ error' = "none"
    /\ log' = <<>>
    /\ UNCHANGED <<appVars, fs, archive, format, mode, dest_dir, packVars, configVars, monitorVars,
                   pureVars>>

NextTwice == Next \/ Rerun

SpecTwice == Init /\ [][NextTwice]_vars

-----------------------------------------------------------------------------
(* Properties                                                              *)

Entries == 1..Len(archive)

Steps == DOMAIN log

\* the loop iterations logged so far (the symlink pass logs i = 0)
EntrySteps == { k \in Steps : log[k].i # 0 }

HasDotDotSegment(raw) ==
    \E k \in 1..Len(Split(normalize_entry_path(raw))) :
        Split(normalize_entry_path(raw))[k] = DotDot

\* a `..` segment, a leading separator, or a drive-letter prefix
UnsafeRaw(raw) ==
    \/ HasDotDotSegment(raw)
    \/ Len(raw) >= 1 /\ raw[1] \in {"/", "\\"}
    \/ Len(raw) >= 2 /\ raw[1] \in AsciiAlpha /\ raw[2] = ":"

\* C1: an entry whose raw path has a `..` segment, a leading `/` or `\` or a
\* drive-letter prefix makes the call fail: the loop never gets past it, the
\* iteration that meets it changes neither the file system nor the
\* written-file set nor the symlink queue, the symlink pass never runs, and
\* the call never returns Ok.
C1_UnsafePathAborts ==
    \A i \in Entries :
        UnsafeRaw(archive[i].path) =>
            /\ pos <= i
            /\ result # "ok"
            /\ \A k \in Steps :
                  /\ log[k].i # 0
                  /\ log[k].i <= i
                  /\ log[k].i = i =>
                        /\ ~log[k].ok
                        /\ log[k].op = "check"
                        /\ ~log[k].changed
                        /\ log[k].kept
                        /\ pc = "done"
                        /\ result = "err"
                        /\ error \in {"unsafe entry path", "unsafe zip path"}

\* an unsafe first entry stopped the call and the file entry after it was
\* never reached
C1_Witness ==
    /\ pc = "done"
    /\ result = "err"
    /\ pos = 1
    /\ Len(archive) >= 2
    /\ UnsafeRaw(archive[1].path)
    /\ archive[2].kind = "file"
    /\ ~UnsafeRaw(archive[2].path)
    /\ Len(log) = 1

\* paths that exist now and did not exist when the call began
CreatedPaths == DOMAIN fs.tree \ DOMAIN fs0.tree

\* C2: every file, directory and hard link the extraction creates lies inside
\* the destination root, whatever symbolic links existed at the destination
\* beforehand (dangling or not, at any position of the entry's path, its last
\* component included).
C2_CreatedInsideRoot ==
    \A p \in CreatedPaths :
        fs.tree[p].k \in {"dir", "file"} => IsPrefix(dest_dir, p)

\* a file entry written through a dangling final symlink created a file
\* outside the destination root
C2_Escaped ==
    \E p \in CreatedPaths :
        /\ fs.tree[p].k = "file"
        /\ ~IsPrefix(dest_dir, p)

\* symlinks that were in the destination tree when the call began and whose
\* target lies outside the destination root
OutsideLinks ==
    { p \in DOMAIN fs0.tree :
        /\ fs0.tree[p].k = "link"
        /\ IsPrefix(dest_dir, p)
        /\ PathNew(fs0.tree[p].to).abs
        /\ ~IsPrefix(dest_dir, PathNew(fs0.tree[p].to).c) }

\* the output path the mapper gives entry i, <<>> if it skips or is unsafe
MappedPath(i) ==
    With(destination_for(mode, top_dir, dest_dir, archive[i].path), LAMBDA m :
        IF parse_entry_rel_path(archive[i].path).some /\ m.some THEN m.v.c ELSE <<>>)

\* entry i is mapped below one of the outside links
UnderOutsideLink(i) ==
    \E p \in OutsideLinks : IsPrefix(p, MappedPath(i)) /\ MappedPath(i) # p

\* the link of OutsideLinks above entry i has an existing target
UnderLiveOutsideLink(i) ==
    \E p \in OutsideLinks :
        /\ IsPrefix(p, MappedPath(i))
        /\ MappedPath(i) # p
        /\ Exists(fs0.tree, p)

\* iteration k of the log created nothing outside the destination root
StepInsideRoot(k) == \A p \in log[k].new : IsPrefix(dest_dir, p)

\* the loop stopped with an error at entry i, or has not reached it yet
FailsAt(i) ==
    /\ pos <= i
    /\ \A k \in Steps : log[k].i = i => ~log[k].ok /\ pc = "done" /\ result = "err"

PasswdLink(i) ==
    /\ archive[i].kind = "symlink"
    /\ archive[i].target = PasswdTarget
    /\ MappedPath(i) # <<>>

\* number of directories between the destination root and the output path of
\* entry i
DirsBelowRoot(i) == Len(MappedPath(i)) - Len(dest_dir) - 1

\* C4 (as stated): a symlink entry with target ../../etc/passwd makes the
\* extraction fail wherever the link entry is located.
C4_PasswdLinkAlwaysFails ==
    \A i \in Entries : PasswdLink(i) => result # "ok"

\* C4 (amended): a symlink entry with target ../../etc/passwd whose output
\* path lies fewer than two directories below the destination root makes the
\* extraction fail at that entry with the escape error and without touching
\* the file system, whether or not /etc/passwd exists; when the link lies two
\* or more directories below the root the target stays inside the root and
\* the entry is never refused as escaping.  (When the output path of the
\* link runs through a regular file, the entry fails earlier, at the
\* resolution of its own path, with the canonicalize error.)
C4_ShallowPasswdLinkFails ==
    \A i \in Entries :
        PasswdLink(i) =>
            IF DirsBelowRoot(i) < 2
            THEN /\ FailsAt(i)
                 /\ result # "ok"
                 /\ \A k \in Steps :
                       log[k].i = i =>
                           /\ ~log[k].changed
                           /\ log[k].kept
                           /\ \/ /\ log[k].op = "queue"
                                 /\ error = "path escaping destination"
                              \/ /\ log[k].op = "check"
                                 /\ error = "enotdir"
            ELSE \A k \in Steps :
                    (log[k].i = i /\ ~log[k].ok) => error # "path escaping destination"

\* with /etc/passwd present, a link one directory below the root was refused
C4_Witness ==
    /\ pc = "done"
    /\ result = "err"
    /\ error = "path escaping destination"
    /\ pos <= Len(archive)
    /\ PasswdLink(pos)
    /\ DirsBelowRoot(pos) = 1
    /\ Exists(fs0.tree, <<S_etc, S_passwd>>)

\* C5: a hard-link entry is materialized only if its resolved target is the
\* resolved path of a file (or hard link) written by an earlier entry of the
\* same call; otherwise the hard-link entry stops the extraction with an
\* error, even when the target entry comes later in the archive or the target
\* already exists on disk.
C5_HardLinkNeedsEarlierFile ==
    \A k \in Steps :
        log[k].op = "hardlink" =>
            \/ /\ log[k].ok
               /\ \E j \in 1..(k - 1) :
                     /\ log[j].ok
                     /\ log[j].op \in {"file", "hardlink"}
                     /\ log[j].path = log[k].src
            \/ /\ ~log[k].ok
               /\ pc = "done"
               /\ result = "err"
               /\ pos = log[k].i

\* a hard link that came before its target entry stopped the extraction
C5_Witness ==
    /\ pc = "done"
    /\ result = "err"
    /\ error = "hard link target not extracted earlier"
    /\ pos = 1
    /\ Len(archive) = 2
    /\ archive[1].kind = "hardlink"
    /\ archive[2].kind = "file"
    /\ archive[2].path = archive[1].target
    /\ fs = fs0

\* the content stream of entry i yields a byte count other than the
\* declared size
SizeMismatch(i) ==
    archive[i].kind = "file" /\ Len(archive[i].data) # archive[i].size

\* C6: when write_entry is called for a File entry whose content stream
\* yields a byte count different from the declared size, it returns the
\* size-mismatch error, the call returns that error and never Ok, and no
\* later entry is processed.
C6_SizeMismatchAborts ==
    \A k \in Steps :
        (log[k].op = "file" /\ SizeMismatch(log[k].i)) =>
            /\ ~log[k].ok
            /\ k = Len(log)
            /\ pos = log[k].i
            /\ pc = "done"
            /\ result = "err"
            /\ error = "size mismatch"

\* a short first entry stopped the call before the second entry
C6_Witness ==
    /\ pc = "done"
    /\ result = "err"
    /\ error = "size mismatch"
    /\ pos = 1
    /\ Len(archive) = 2
    /\ SizeMismatch(1)
    /\ ~SizeMismatch(2)
    /\ Len(log) = 1
    /\ log[1].op = "file"

\* the segments of the raw path of entry i
Segs(i) == DropEmptyDot(Split(normalize_entry_path(archive[i].path)))

\* every entry has a safe path with the same first segment, and at least one
\* entry is deeper than one segment
SharedTop ==
    /\ \A i \in Entries :
          /\ ~UnsafeRaw(archive[i].path)
          /\ Segs(i) # <<>>
          /\ Head(Segs(i)) = Head(Segs(1))
    /\ \E i \in Entries : Len(Segs(i)) >= 2

\* C7: in flat extraction of an archive whose entries all share the first
\* segment T, one of them being deeper than one segment, every entry T/p the
\* loop handles is written, linked or queued at <dest>/p, and an entry that
\* is T alone is passed over; this holds for the tar.gz and the zip entry
\* point alike.
C7_FlatStripsTop ==
    (mode = "flat" /\ SharedTop) =>
        \A k \in EntrySteps :
            IF Len(Segs(log[k].i)) = 1
            THEN log[k].op = "skip" /\ log[k].ok /\ ~log[k].changed
            ELSE /\ log[k].op # "skip"
                 /\ log[k].ok =>
                       /\ log[k].path = dest_dir \o Tail(Segs(log[k].i))
                       /\ log[k].op \in {"file", "dir", "hardlink"} =>
                             /\ log[k].at = log[k].path
                             /\ log[k].new \subseteq {log[k].path}

\* the zip entry point wrote T/a at <dest>/a and created no <dest>/T
C7_Witness ==
    /\ mode = "flat"
    /\ format = "zip"
    /\ SharedTop
    /\ pc = "done"
    /\ result = "ok"
    /\ Len(archive) = 2
    /\ Segs(1) = <<S_T>>
    /\ Segs(2) = <<S_T, S_a>>
    /\ IsFile(fs.tree, dest_dir \o <<S_a>>)
    /\ ~Exists(fs.tree, dest_dir \o <<S_T>>)

\* entry i is a safe single-segment path: a top segment alone
TopAlone(i) == ~UnsafeRaw(archive[i].path) /\ Len(Segs(i)) = 1

\* entry i is a safe path deeper than one segment
Nested(i) == ~UnsafeRaw(archive[i].path) /\ Len(Segs(i)) >= 2

\* every safe entry begins with the same segment
SharedFirst ==
    \A i, j \in Entries :
        (~UnsafeRaw(archive[i].path) /\ ~UnsafeRaw(archive[j].path)
            /\ Segs(i) # <<>> /\ Segs(j) # <<>>) => Head(Segs(i)) = Head(Segs(j))

\* the entries that are a top segment alone are kept at <dest>/T
TopAloneKept ==
    /\ top_dir = None
    /\ \A k \in EntrySteps :
          TopAlone(log[k].i) =>
              /\ log[k].op # "skip"
              /\ log[k].ok =>
                    /\ log[k].path = dest_dir \o Segs(log[k].i)
                    /\ log[k].op = "dir" => IsDir(fs.tree, log[k].path)
                    /\ log[k].op = "file" => IsFile(fs.tree, log[k].path)

\* C8 (as stated): in flat extraction, if any entry is the shared top segment
\* T alone, no stripping occurs and T is created as the literal child <dest>/T.
C8_TopAloneNeverStripped ==
    (mode = "flat" /\ pc # "scan" /\ SharedFirst /\ \E i \in Entries : TopAlone(i))
        => TopAloneKept

\* C8 (amended): in flat extraction, if an entry is the top segment T alone
\* and no entry of the archive is deeper than one segment, no stripping occurs
\* and the entry is created as the literal child <dest>/T (a directory for a
\* directory entry, a file for a file entry).  When some entry is nested
\* below T, T is stripped and the entry T itself is passed over.
C8_TopAloneWithoutNested ==
    (mode = "flat" /\ pc # "scan" /\ \E i \in Entries : TopAlone(i)) =>
        IF \E j \in Entries : Nested(j)
        THEN SharedFirst =>
                /\ top_dir = Some(Head(Segs(1)))
                /\ \A k \in EntrySteps : TopAlone(log[k].i) => log[k].op = "skip"
        ELSE TopAloneKept

\* a directory entry T/ on its own became the directory <dest>/T
C8_Witness ==
    /\ mode = "flat"
    /\ pc = "done"
    /\ result = "ok"
    /\ top_dir = None
    /\ \A j \in Entries : ~Nested(j)
    /\ TopAlone(1)
    /\ archive[1].kind = "dir"
    /\ IsDir(fs.tree, dest_dir \o Segs(1))
    /\ ~IsDir(fs0.tree, dest_dir \o Segs(1))

\* the symlinks on disk are the ones that were there when the call began
NoNewSymlink ==
    \A p \in DOMAIN fs.tree :
        fs.tree[p].k = "link" => (p \in DOMAIN fs0.tree /\ fs0.tree[p] = fs.tree[p])

\* C9: within one call no symlink is created on disk until every archive
\* entry has been processed, and if processing any entry fails no symlink of
\* the archive is created at all.
C9_SymlinksCreatedLast ==
    /\ pos <= Len(archive) => NoNewSymlink
    /\ (\E k \in EntrySteps : ~log[k].ok) => NoNewSymlink
    /\ \A k \in Steps :
          log[k].i = 0 =>
              /\ pos = Len(archive) + 1
              /\ \A i \in Entries : \E j \in 1..(k - 1) : log[j].i = i /\ log[j].ok

\* a symlink entry followed by a file entry: the link exists once the call
\* is through, and it was made after the file was written
C9_Witness ==
    /\ pc = "done"
    /\ result = "ok"
    /\ Len(archive) = 2
    /\ archive[1].kind = "symlink"
    /\ archive[2].kind = "file"
    /\ Len(log) = 3
    /\ log[2].op = "file"
    /\ log[3].i = 0
    /\ log[3].ok
    /\ ~NoNewSymlink

\* the mapper returns None for the safe path of entry i
MapperSkips(i) ==
    /\ parse_entry_rel_path(archive[i].path).some
    /\ ~destination_for(mode, top_dir, dest_dir, archive[i].path).some

\* C10: when the destination mapper returns None for an entry, the iteration
\* writes nothing, queues nothing, adds nothing to the written-file set,
\* raises no error, and the loop goes on with the next entry.
C10_SkipOmitsEntry ==
    [][(pc = "entries" /\ pos <= Len(archive) /\ MapperSkips(pos)) =>
          /\ fs' = fs
          /\ extracted_files' = extracted_files
          /\ pending_symlinks' = pending_symlinks
          /\ result' = result
          /\ error' = error
          /\ pos' = pos + 1
          /\ pc' = IF pos = Len(archive) THEN "symlinks" ELSE "entries"]_vars

\* the backup routing skipped the first entry and the second one was written
C10_Witness ==
    /\ mode = "backup"
    /\ pc = "done"
    /\ result = "ok"
    /\ Len(archive) = 2
    /\ MapperSkips(1)
    /\ ~MapperSkips(2)
    /\ Len(log) = 2
    /\ log[1].op = "skip"
    /\ ~log[1].changed
    /\ log[2].op = "file"
    /\ log[2].ok
    /\ CreatedPaths = log[2].new

SupportedKinds == {"dir", "file", "symlink", "hardlink"}

Unsupported(i) == archive[i].kind \notin SupportedKinds

\* C13: every tar entry of a type other than directory, regular file,
\* symlink or hard link that the loop of extract_tar_gz_mapped comes to makes
\* the iteration fail and the call return the error; none is passed over.
C13_UnsupportedTypeAborts ==
    \A k \in EntrySteps :
        (format = "tar" /\ Unsupported(log[k].i)) =>
            /\ ~log[k].ok
            /\ result = "err"

\* a tar archive holding a fifo below venv/ was restored with result Ok
C13_PassedOver ==
    /\ format = "tar"
    /\ mode = "backup"
    /\ pc = "done"
    /\ result = "ok"
    /\ \E k \in EntrySteps :
          /\ Unsupported(log[k].i)
          /\ log[k].op = "skip"
          /\ log[k].ok

LinkEntry(i) == archive[i].kind \in {"symlink", "hardlink"}

\* a link target that is empty, absolute, or starts with a drive letter
BadTarget(target) ==
    \/ target = <<>>
    \/ target[1] = "/"
    \/ Len(target) >= 2 /\ target[1] \in AsciiAlpha /\ target[2] = ":"

BadLink(i) == LinkEntry(i) /\ BadTarget(archive[i].target)

\* C14 as claimed: an archive holding a symlink or hard-link entry whose
\* target is empty, absolute or drive-prefixed is never extracted with
\* result Ok, and no link with such a target is queued or created.
C14_BadTargetAlwaysFails ==
    /\ (\E i \in Entries : BadLink(i)) => result # "ok"
    /\ \A q \in 1..Len(pending_symlinks) : ~BadTarget(pending_symlinks[q].target)
    /\ \A p \in CreatedPaths : fs.tree[p].k = "link" => ~BadTarget(fs.tree[p].to)

\* C14: a symlink or hard-link entry whose target is empty, absolute or
\* drive-prefixed, once the loop comes to it and the mapper gives it a
\* destination, makes the iteration fail without touching the file system,
\* the written-file set or the symlink queue, and the call return an error;
\* no link with such a target is ever queued or created.  An entry the
\* mapper skips is passed over whatever its target.
C14_BadTargetNeverLinked ==
    /\ \A k \in EntrySteps :
          (BadLink(log[k].i) /\ log[k].op # "skip") =>
              /\ ~log[k].ok
              /\ ~log[k].changed
              /\ log[k].kept
              /\ result = "err"
    /\ \A k \in EntrySteps :
          (BadLink(log[k].i) /\ log[k].op = "skip") => MapperSkips(log[k].i)
    /\ \A q \in 1..Len(pending_symlinks) : ~BadTarget(pending_symlinks[q].target)
    /\ \A p \in CreatedPaths : fs.tree[p].k = "link" => ~BadTarget(fs.tree[p].to)

\* after a file was written, a hard-link entry with an absolute target
\* stopped the extraction with the validation error
C14_Witness ==
    /\ pc = "done"
    /\ result = "err"
    /\ error = "absolute targets are not allowed"
    /\ Len(log) = 2
    /\ log[1].op = "file"
    /\ log[1].ok
    /\ archive[2].kind = "hardlink"
    /\ archive[2].target = AbsTarget
    /\ ~log[2].ok
    /\ ~log[2].changed

\* an iteration that wrote the whole content of a regular-file entry
WroteFile(k) ==
    /\ log[k].op = "file"
    /\ log[k].at # <<>>
    /\ ~SizeMismatch(log[k].i)

\* C15: a failure to apply the unix permission bits to a file that has just
\* been written is tolerated: the iteration that wrote the file goes through,
\* the extraction goes on, and no call returns the set-permissions error.
C15_PermissionFailureTolerated ==
    /\ \A k \in EntrySteps : WroteFile(k) => log[k].ok
    /\ error # "failed to set permissions"

\* the only entry was written completely, then set_permissions failed and
\* the call returned that error
C15_PermissionFailureFatal ==
    /\ pc = "done"
    /\ result = "err"
    /\ error = "failed to set permissions"
    /\ Len(archive) = 1
    /\ Len(log) = 1
    /\ WroteFile(1)
    /\ ~log[1].ok
    /\ IsFile(fs.tree, log[1].at)
    /\ fs.ino[fs.tree[log[1].at].ino] = archive[1].data

\* p and q name the same inode of f
SameInode(f, p, q) ==
    /\ p \in DOMAIN f.tree
    /\ q \in DOMAIN f.tree
    /\ f.tree[p].k = "file"
    /\ f.tree[q].k = "file"
    /\ f.tree[p].ino = f.tree[q].ino

\* the iteration being taken hands a validated hard-link entry to
\* create_hard_link_entry
HardLinkStep ==
    /\ pc = "entries"
    /\ Len(log') = Len(log) + 1
    /\ log'[Len(log')].op = "hardlink"
    /\ log'[Len(log')].src # <<>>

FilesAndDirsOnly == \A i \in Entries : archive[i].kind \in {"file", "dir"}

\* C12: when an archive of files and directories is extracted a second time
\* into the destination its first extraction left, the second call returns
\* Ok as well and leaves the destination as it found it.
C12_SecondRunIdempotent ==
    (run = 2 /\ pc = "done" /\ FilesAndDirsOnly) =>
        /\ result = "ok"
        /\ fs = fs0

\* the second extraction of the one-file archive [s] stopped with the
\* path-escape error at the entry the first extraction had written
C12_SecondRunFails ==
    /\ run = 2
    /\ pc = "done"
    /\ archive = <<FileE(S_s)>>
    /\ result = "err"
    /\ error = "path escaping destination"
    /\ fs = fs0
    /\ IsFile(fs.tree, <<S_out, S_x>>)
    /\ fs.tree[<<S_inst, S_s>>].k = "link"

\* the regular files below root, by their paths relative to root
RelFiles(f, root) ==
    { RelativeTo(root, q) :
        q \in { r \in Below(f.tree, root) : r # root /\ f.tree[r].k = "file" } }

\* data_dir holds regular files and directories only
PlainTree == \A q \in Below(fs.tree, DataDir) : fs.tree[q].k # "link"

RoundTripDone ==
    /\ packer = "tree"
    /\ pack_result = "ok"
    /\ pc = "done"

\* C11: once a tree of regular files and directories has been packed under
\* the one prefix `data` and the archive extracted in flat mode into a fresh
\* directory, the extraction has returned Ok and the directory holds the
\* same relative file paths with the same bytes as the tree.
C11_RoundTrip ==
    (RoundTripDone /\ PlainTree) =>
        /\ result = "ok"
        /\ RelFiles(fs, dest_dir) = RelFiles(fs, DataDir)
        /\ \A r \in RelFiles(fs, DataDir) :
               BytesAt(fs, dest_dir \o r) = BytesAt(fs, DataDir \o r)

\* the tree held the one file named `a\b`; the round trip returned Ok and
\* left the file b inside a directory a
C11_BackslashNameSplit ==
    /\ RoundTripDone
    /\ PlainTree
    /\ result = "ok"
    /\ RelFiles(fs, DataDir) = {<<S_a_bs_b>>}
    /\ RelFiles(fs, dest_dir) = {<<S_a, S_b>>}

\* the symbolic links below data_dir
SrcLinks == { q \in Below(fs.tree, DataDir) : fs.tree[q].k = "link" }

\* the names of the entries handed to the writer so far
WrittenNames == { writer[i].path : i \in DOMAIN writer }

\* C17: packing a tree that holds a symbolic link never returns Ok, and no
\* entry is written under the name of a symbolic link.
C17_SymlinkFailsPacking ==
    /\ (pack_result = "ok" => SrcLinks = {})
    /\ \A q \in SrcLinks :
          /\ ArchivePath(S_data, RelativeTo(DataDir, q)) \notin WrittenNames
          /\ DirectoryName(ArchivePath(S_data, RelativeTo(DataDir, q))) \notin WrittenNames

\* packing returned Ok for a tree holding the links s -> a and d -> b: s
\* was stored as a regular file with the bytes of a, d as a directory
C17_SymlinkDereferenced ==
    /\ pack_result = "ok"
    /\ DataDir \o <<S_s>> \in SrcLinks
    /\ DataDir \o <<S_d>> \in SrcLinks
    /\ \E i \in DOMAIN writer :
          writer[i] = ZipFile(ArchivePath(S_data, <<S_s>>), <<7>>)
    /\ \E i \in DOMAIN writer :
          writer[i] = DirE(DirectoryName(ArchivePath(S_data, <<S_d>>)))

\* opening a source file or writing an entry failed during the walk
WalkFailed ==
    /\ pack_result = "err"
    /\ pack_error \in {"open", "copy", "start_file", "add_directory"}

\* C18: when opening a source file or writing an entry fails while the
\* archive is created, the walk stops at that item, the error is returned
\* instead of a backup path, and the file at backup_path is not a finalized
\* archive.
C18_FailureAbortsArchive ==
    WalkFailed =>
        /\ pack_pc = "done"
        /\ walk # <<>>
        /\ backup_file # "finalized"

\* create_backup_archive returned the error of File::open for the file a,
\* and the file at backup_path is a finalized archive holding backup.toml
\* and an empty entry data/a
C18_PartialArchiveFinalized ==
    /\ packer = "backup"
    /\ WalkFailed
    /\ pack_error = "open"
    /\ backup_file = "finalized"
    /\ writer = <<ZipFile(S_backup_toml, <<1>>), ZipFile(ArchivePath(S_data, <<S_a>>), <<>>)>>
    /\ BytesAt(fs, DataDir \o <<S_a>>) = <<7>>

\* the callers whose with_config_mut call went through: closure Ok, saved
OkCallers == { c \in Callers : calls[c].outcome = "ok" }

\* the orders in which the callers of S can be lined up
SerialOrders(S) ==
    { w \in [1..Cardinality(S) -> S] : \A i, j \in DOMAIN w : i # j => w[i] # w[j] }

SaveFailed == \E c \in Callers : calls[c].outcome \in {"save failed", "load failed"}

\* C19: whenever no with_config_mut call is inside its critical section,
\* the cached configuration is the configuration from before the calls with
\* the closures of all calls that went through applied one after another in
\* some order, each exactly once, and the file holds the same configuration
\* (unless a save failed and tore the file).
C19_NoLostUpdate ==
    CONFIG_LOCK = 0 =>
        /\ OkCallers # {} => CONFIG_CACHE.some
        /\ CONFIG_CACHE.some =>
              /\ \E w \in SerialOrders(OkCallers) : CONFIG_CACHE.v = config0 \o w
              /\ \/ config_file = FileWith(CONFIG_CACHE.v)
                 \/ SaveFailed /\ config_file = FileTorn

\* three calls went through, caller 3 first, then 1, then 2; cache and file
\* hold all three updates in that order
C19_Witness ==
    /\ \A c \in Callers : calls[c].pc = "done" /\ calls[c].outcome = "ok"
    /\ CONFIG_LOCK = 0
    /\ config0 = <<0>>
    /\ CONFIG_CACHE = Some(<<0, 3, 1, 2>>)
    /\ config_file = FileWith(<<0, 3, 1, 2>>)

\* a tracked instance with dashboard is dropped by the cleanup being taken
DroppedByCleanup(id) ==
    /\ pass_pc = "loop"
    /\ instances = <<>>
    /\ id \in DOMAIN processes
    /\ processes[id].dashboard_enabled
    /\ pass_pc' = "idle"
    /\ id \notin DOMAIN processes'

\* the pass has failed a health check of id at least the grace period
\* after the first failure of the current run of consecutive failures
FailedPastGrace(id) ==
    /\ id \in DOMAIN failing_since
    /\ now >= failing_since[id] + HEALTH_CHECK_GRACE_PERIOD
    /\ processes[id].failure_count >= 1

\* C20: get_all_statuses drops a tracked instance with dashboard only when,
\* in that pass, a health check failed at least HEALTH_CHECK_GRACE_PERIOD
\* after the first failure of the current run of failures; and a tracked
\* instance with dashboard that is in no run of failures has failure_count
\* 0 and neither health_failure_since nor next_check_at set.
C20_GraceBeforeRemoval ==
    [][/\ \A id \in InstanceIds : DroppedByCleanup(id) => FailedPastGrace(id)
       /\ \A id \in DOMAIN processes' :
             (processes'[id].dashboard_enabled /\ id \notin DOMAIN failing_since') =>
                 processes'[id] = clear_health_failure_state(processes'[id])]_vars

\* the pass looked at the instance started first; that one was removed and
\* the instance started again before the cleanup, which is about to drop
\* the new entry although no health check of it has failed
C20_FreshEntryDropped ==
    /\ pass_pc = "loop"
    /\ instances = <<>>
    /\ stale_instances = <<"i1">>
    /\ results = ("i1" :> FALSE)
    /\ "i1" \in DOMAIN processes
    /\ processes["i1"] = InstanceProcessNew(2, TRUE)
    /\ "i1" \notin DOMAIN failing_since

\* the pieces of raw between separators (`\` read as `/`), the empty ones and
\* the `.` ones left out
KeptSegments(raw) ==
    SelectSeq(Split(normalize_entry_path(raw)), LAMBDA seg : seg # <<>> /\ seg # Dot)

\* raw does not start with a separator, has no drive-letter prefix, no `..`
\* segment, and keeps a segment
Parseable(raw) ==
    /\ ~(Len(raw) >= 1 /\ raw[1] \in {"/", "\\"})
    /\ ~(Len(raw) >= 2 /\ raw[1] \in AsciiAlpha /\ raw[2] = ":")
    /\ ~HasDotDotSegment(raw)
    /\ KeptSegments(raw) # <<>>

ParseReturned == callee = "parse_entry_rel_path" /\ ret.returned

\* C21: parse_entry_rel_path(raw) returns a path exactly when raw, with `\`
\* read as `/`, does not start with `/`, has no drive-letter prefix at its
\* start, holds no `..` segment and keeps a segment other than `.`; the path
\* returned is the sequence of the non-empty segments of raw other than `.`,
\* in their order.
C21_ParseExact ==
    ParseReturned =>
        /\ ret.value.some <=> Parseable(args.raw)
        /\ ret.value.some => ret.value.v = KeptSegments(args.raw)

\* on a Windows build the path returned for `a/C:` is the drive-relative
\* path `C:`; the segment `a` before it is gone
C21_DrivePrefixReplaces ==
    /\ ParseReturned
    /\ args.windows
    /\ args.raw = <<"a", "/", "C", ":">>
    /\ ret.value = Some(<<<<"C", ":">>>>)

\* the entry paths of the list that parse_entry_rel_path accepts, each as
\* its sequence of segments
SafelyParsed(paths) ==
    { KeptSegments(paths[i]) : i \in { j \in DOMAIN paths : Parseable(paths[j]) } }

\* the top directory C22 asks for
CommonTop(paths) ==
    IF /\ \E p \in SafelyParsed(paths) : Len(p) > 1
       /\ \A p, q \in SafelyParsed(paths) : p[1] = q[1]
    THEN Some((CHOOSE p \in SafelyParsed(paths) : TRUE)[1])
    ELSE None

\* the lists that hold the elements of paths in another order
Reorderings(paths) ==
    { [i \in DOMAIN paths |-> paths[f[i]]] :
        f \in { g \in [DOMAIN paths -> DOMAIN paths] :
                  \A i, j \in DOMAIN paths : g[i] = g[j] => i = j } }

DetectReturned == callee = "detect_common_top_dir" /\ ret.returned

\* C22: the detection yields T exactly when every entry path that parses
\* safely has first segment T and one of them has more than one segment,
\* none otherwise, and scanning the entries in any other order yields the
\* same.
C22_TopDirDetection ==
    DetectReturned =>
        /\ ret.value = CommonTop(args.paths)
        /\ \A other \in Reorderings(args.paths) :
              detect_common_top_dir(other) = ret.value

\* T was detected although T alone came first, an unsafe path was passed
\* over, and the nested path came last
C22_Witness ==
    /\ DetectReturned
    /\ args.paths = <<S_T, Raw(<<S_T, DotDot, S_a>>), <<"T", "\\", "b">>>>
    /\ ret.value = Some(S_T)

StripReturned == callee = "strip_common_top_dir" /\ ret.returned

\* C30: strip_common_top_dir never returns an empty path; with a top
\* directory given, a path equal to the top directory and a path that does
\* not start with it are skipped (None), any other path loses exactly its
\* first segment; and the closure of the flat extraction never maps an entry
\* to the destination root itself.
C30_StripNeverEmpty ==
    StripReturned =>
        /\ ret.value.some => ret.value.v # <<>>
        /\ args.top_dir.some =>
              /\ args.relative = <<args.top_dir.v>> => ~ret.value.some
              /\ args.relative[1] # args.top_dir.v => ~ret.value.some
              /\ ret.value.some => <<args.top_dir.v>> \o ret.value.v = args.relative
        /\ With(FlatMapper(Raw(args.relative), args.top_dir, <<S_out>>), LAMBDA out_path :
              out_path.some => /\ out_path.v.c # <<S_out>>
                               /\ IsPrefix(<<S_out>>, out_path.v.c))

\* the path T alone was skipped when T is the top directory
C30_Witness ==
    /\ StripReturned
    /\ args.top_dir = Some(S_T)
    /\ args.relative = <<S_T>>
    /\ ret.value = None

\* an iteration of the entry loop: it is the one that adds to the log while
\* the loop runs
EntryStep == pc = "entries" /\ log' # log

\* the raw path of the entry the loop is at parses safely
SafeHere == parse_entry_rel_path(archive[pos].path).some

\* what the mapper answers for the entry the loop is at
MappedHere == destination_for(mode, top_dir, dest_dir, archive[pos].path)

\* the iteration stopped the call with one of these errors before anything
\* was done for the entry
StoppedAtCheck(errors) ==
    /\ result' = "err"
    /\ error' \in errors
    /\ Last(log').op = "check"
    /\ fs' = fs
    /\ extracted_files' = extracted_files
    /\ pending_symlinks' = pending_symlinks

\* C23: every iteration of the entry loop checks the raw path first, asks
\* the mapper second and resolves the mapped path against the root third:
\* an unsafe raw path stops the call whatever the mapper would answer; a
\* safe entry the mapper skips is passed over without the resolver being
\* asked; a mapped path the resolver refuses stops the call with the
\* resolver's error whatever the type of the entry; only then is the entry
\* dispatched.
C23_CheckThenMapThenResolve ==
    [][EntryStep =>
        IF ~SafeHere
        THEN StoppedAtCheck({"unsafe entry path", "unsafe zip path"})
        ELSE IF ~MappedHere.some
        THEN /\ Last(log').op = "skip"
             /\ Last(log').ok
             /\ fs' = fs
             /\ result' = result
        ELSE IF ~resolve_within_dir(fs.tree, dest_dir, MappedHere.v).ok
        THEN StoppedAtCheck({resolve_within_dir(fs.tree, dest_dir, MappedHere.v).err})
        ELSE /\ Last(log').op # "skip"
             /\ Last(log').op = "check" =>
                   archive[pos].kind \notin {"file", "dir", "symlink", "hardlink"}
    ]_vars

\* restoring a backup stopped at the entry venv/../x, which the routing
\* closure would have skipped
C23_Witness ==
    /\ mode = "backup"
    /\ pc = "done"
    /\ result = "err"
    /\ error \in {"unsafe entry path", "unsafe zip path"}
    /\ pos <= Len(archive)
    /\ archive[pos].path = Raw(<<S_venv, DotDot, S_x>>)
    /\ ~BackupMapper(archive[pos].path).some
    /\ fs = fs0

\* the output paths of the file and hard-link entries the current call has
\* materialized before iteration k
WrittenBefore(k) ==
    { log[j].path : j \in { n \in Steps : /\ n < k
                                           /\ log[n].ok
                                           /\ log[n].op \in {"file", "hardlink"} } }

\* C24: the written-file set is empty when a call starts, the second call
\* into the same destination included, and holds only paths the current
\* call has written; so a hard link is made only to a file the current call
\* has written earlier, and one whose target is a file that was in the
\* destination beforehand is refused.
C24_WrittenSetPerCall ==
    /\ pc \in {"scan", "open"} => extracted_files = {}
    /\ extracted_files \subseteq WrittenBefore(Len(log) + 1)
    /\ \A k \in Steps :
          (log[k].op = "hardlink" /\ log[k].ok) => log[k].src \in WrittenBefore(k)

\* a hard link to the file a, which an earlier extraction had left in the
\* destination, was refused
C24_Witness ==
    /\ pc = "done"
    /\ result = "err"
    /\ error = "hard link target not extracted earlier"
    /\ archive[pos].kind = "hardlink"
    /\ archive[pos].target = S_a
    /\ IsFile(fs0.tree, Append(dest_dir, S_a))
    /\ Append(dest_dir, S_a) \notin WrittenBefore(Len(log) + 1)

\* the loop is at a hard-link entry of a tar archive whose own output path
\* resolves inside the root and whose target passes validate_rel_link_target
HardLinkHere ==
    /\ EntryStep
    /\ format = "tar"
    /\ archive[pos].kind = "hardlink"
    /\ SafeHere
    /\ MappedHere.some
    /\ resolve_within_dir(fs.tree, dest_dir, MappedHere.v).ok
    /\ archive[pos].target # <<>>
    /\ validate_rel_link_target(archive[pos].target).ok

\* first candidate: the mapper applied to the raw path of the target, the
\* result resolved against the root; None when the mapper gives no path or
\* the path does not resolve inside the root
MappedCandidate ==
    With(destination_for(mode, top_dir, dest_dir, archive[pos].target), LAMBDA mapped :
        IF ~mapped.some THEN None
        ELSE With(resolve_within_dir(fs.tree, dest_dir, mapped.v), LAMBDA r :
                 IF r.ok THEN Some(r.v) ELSE None))

\* second candidate: the target taken relative to the parent directory of
\* the link's output path
LiteralCandidate ==
    With(resolve_within_dir(fs.tree, dest_dir,
             PathJoin(AbsPath(Parent(resolve_within_dir(fs.tree, dest_dir, MappedHere.v).v)),
                      PathNew(archive[pos].target))), LAMBDA r :
        IF r.ok THEN Some(r.v) ELSE None)

\* C25: at a hard-link entry the first of the two candidates (the mapped
\* target, then the target relative to the link's own parent) that is in the
\* written-file set is the file linked; when neither is, the entry is
\* refused.
C25_FirstWrittenCandidateLinked ==
    [][HardLinkHere =>
        IF MappedCandidate.some /\ MappedCandidate.v \in extracted_files
        THEN Last(log').src = MappedCandidate.v
        ELSE IF LiteralCandidate.some /\ LiteralCandidate.v \in extracted_files
        THEN Last(log').src = LiteralCandidate.v
        ELSE ~Last(log').ok
    ]_vars

\* flat extraction with top directory T: the hard link T/h to T/a, a file
\* written earlier as <dest>/a, was refused because <dest>/T, written as a
\* file by the entry T/T, stands in the way of the second candidate
C25_SecondCandidateStopsLink ==
    /\ mode = "flat"
    /\ top_dir = Some(S_T)
    /\ pc = "done"
    /\ result = "err"
    /\ error = "enotdir"
    /\ pos = 3
    /\ archive[pos] = LinkE(Raw(<<S_T, S_h>>), Raw(<<S_T, S_a>>))
    /\ Append(dest_dir, S_a) \in extracted_files
    /\ IsFile(fs.tree, Append(dest_dir, S_T))
    /\ Last(log).op = "hardlink"
    /\ Last(log).src = <<>>

\* the symbolic links that the call created
CreatedLinks ==
    { p \in DOMAIN fs.tree : fs.tree[p].k = "link" /\ p \notin DOMAIN fs0.tree }

\* where the system's path walk ends for path p: the node it names, or the
\* first missing component when the link dangles
ResolvesTo(p) == Stat(fs.tree, p).at

\* C26: after a successful extraction into an empty destination every
\* symbolic link the call created resolves, links followed as the system
\* follows them, to a location inside the destination root.
C26_CreatedLinksStayInside ==
    (pc = "done" /\ result = "ok" /\ fs0 = FreshFs) =>
        \A p \in CreatedLinks :
            Stat(fs.tree, p).st # "eloop" => IsPrefix(dest_dir, ResolvesTo(p))

\* the archive [symlink d/x -> .., symlink l -> d/x/..] was extracted with
\* success and <dest>/l names the parent directory of the destination
C26_ChainLeavesRoot ==
    /\ pc = "done"
    /\ result = "ok"
    /\ fs0 = FreshFs
    /\ archive = <<SymE(Raw(<<S_d, S_x>>), DotDot), SymE(S_l, Raw(<<S_d, S_x, DotDot>>))>>
    /\ Append(dest_dir, S_l) \in CreatedLinks
    /\ Stat(fs.tree, Append(dest_dir, S_l)).st = "ok"
    /\ ResolvesTo(Append(dest_dir, S_l)) = Parent(dest_dir)
    /\ ResolvesTo(Append(Append(dest_dir, S_d), S_x)) = dest_dir

\* the output paths of the directory and symlink entries gone through so far
\* that no file or hard-link entry has written
DirsAndQueuedLinks ==
    { log[j].path : j \in { n \in Steps : log[n].ok /\ log[n].op \in {"dir", "queue"} } }
        \ WrittenBefore(Len(log) + 1)

\* every candidate of the hard link the loop is at is the output path of a
\* directory entry or of a symlink entry
TargetIsDirOrLinkEntry ==
    /\ MappedCandidate.some \/ LiteralCandidate.some
    /\ MappedCandidate.some => MappedCandidate.v \in DirsAndQueuedLinks
    /\ LiteralCandidate.some => LiteralCandidate.v \in DirsAndQueuedLinks

RelinkingSameInode ==
    /\ run = 2
    /\ format = "tar"
    /\ archive = <<FileE(S_a), LinkE(S_h, S_a)>>
    /\ Append(dest_dir, S_a) \in DOMAIN fs0.tree
    /\ Append(dest_dir, S_h) \in DOMAIN fs0.tree
    /\ fs0.tree[Append(dest_dir, S_a)].k = "file"
    /\ fs0.tree[Append(dest_dir, S_h)] = fs0.tree[Append(dest_dir, S_a)]

\* C28: the second extraction of a file and a hard link to it, into the
\* destination where the first left them as one inode, succeeds and leaves
\* both names holding the archived bytes of the file.
C28_RelinkKeepsBytes ==
    (RelinkingSameInode /\ pc = "done") =>
        /\ result = "ok"
        /\ IsFile(fs.tree, Append(dest_dir, S_a))
        /\ IsFile(fs.tree, Append(dest_dir, S_h))
        /\ BytesAt(fs, Append(dest_dir, S_a)) = archive[1].data
        /\ BytesAt(fs, Append(dest_dir, S_h)) = archive[1].data

\* the second extraction returned Ok and left a and h, still one inode,
\* empty: the first had left them holding the archived bytes
C28_BothNamesEmptied ==
    /\ RelinkingSameInode
    /\ pc = "done"
    /\ result = "ok"
    /\ BytesAt(fs0, Append(dest_dir, S_a)) = archive[1].data
    /\ archive[1].data # <<>>
    /\ fs.tree[Append(dest_dir, S_h)] = fs.tree[Append(dest_dir, S_a)]
    /\ BytesAt(fs, Append(dest_dir, S_a)) = <<>>
    /\ BytesAt(fs, Append(dest_dir, S_h)) = <<>>

\* the archive holds a symlink entry that the mapper gives a path to
HasSymlinkEntry ==
    \E i \in Entries :
        /\ archive[i].kind = "symlink"
        /\ parse_entry_rel_path(archive[i].path).some
        /\ destination_for(mode, top_dir, dest_dir, archive[i].path).some

\* the symbolic links of file system f, each with its target
LinksOf(f) == { <<p, f.tree[p].to>> : p \in { q \in DOMAIN f.tree : f.tree[q].k = "link" } }

\* C29: the second extraction of an archive that holds a symlink entry, into
\* the destination its first extraction left, returns Ok (unless the system
\* refuses a change of permissions) and leaves the same symbolic links with
\* the same targets at the same places.
C29_SecondRunKeepsSymlink ==
    (run = 2 /\ pc = "done" /\ HasSymlinkEntry) =>
        /\ result = "ok" \/ error = "failed to set permissions"
        /\ LinksOf(fs) = LinksOf(fs0)

\* the second extraction of the one-entry archive [symlink s -> a] stopped
\* when it came to create the link the first extraction had created
C29_SecondRunStopsAtLink ==
    /\ run = 2
    /\ pc = "done"
    /\ archive = <<SymE(S_s, S_a)>>
    /\ result = "err"
    /\ error = "eexist"
    /\ Last(log).op = "symlink"
    /\ ~Last(log).ok
    /\ <<Append(dest_dir, S_s), S_a>> \in LinksOf(fs0)
    /\ fs = fs0

\* config.rs 140-144: what load_config returns now; before the first use of
\* the cache it is what get_config_cache reads from the file (the default
\* configuration when there is no file)
load_config ==
    IF CONFIG_CACHE.some THEN Ok(CONFIG_CACHE.v)
    ELSE IF config_file.st = "valid" THEN Ok(config_file.v)
    ELSE IF config_file.st = "missing" THEN Ok(DefaultConfig)
    ELSE Err("config")

\* the calls whose closure returned an error or whose save failed
FailedCallers ==
    { c \in Callers : calls[c].outcome \in {"closure failed", "save failed"} }

\* `current` of with_config_mut (config.rs 50-53) for a call that failed: the
\* clone handed to the closure, without what the closure added to it
CurrentOf(c) ==
    IF calls[c].outcome = "save failed" THEN Front(calls[c].updated)
    ELSE calls[c].updated

\* C37: a with_config_mut call whose closure returns an error, or whose save
\* to disk fails, leaves the cached configuration as it was: no step of such
\* a call changes what load_config returns, and when the call comes to
\* return the cache holds the value the call had read. Only the cache write
\* of a call that went through changes what load_config returns.
C37_FailedCallKeepsCache ==
    /\ [](\A c \in FailedCallers :
            calls[c].pc = "return" => CONFIG_CACHE = Some(CurrentOf(c)))
    /\ [][\A c \in Callers :
            (/\ calls'[c] # calls[c]
             /\ calls[c].pc # "store"
             /\ calls'[c].outcome # "load failed") => load_config' = load_config]_vars

\* caller 1 went through; then the closure of caller 2 failed and the save of
\* caller 3 failed and tore the file: the cache still holds the update of
\* caller 1 alone
C37_Witness ==
    /\ config0 = <<0>>
    /\ \A c \in Callers : calls[c].pc = "done"
    /\ calls[1].outcome = "ok"
    /\ calls[2].outcome = "closure failed"
    /\ calls[3].outcome = "save failed"
    /\ config_file = FileTorn
    /\ CONFIG_CACHE = Some(<<0, 1>>)
    /\ load_config = Ok(<<0, 1>>)

CanonReturned == callee = "canonicalize_longest_prefix" /\ ret.returned

\* the path with `.` dropped and each `..` taken against the component before
\* it, which is what the second loop of canonicalize_longest_prefix starts from
NormalizedArg == LexNormalize(args.path.c, args.path.abs, <<>>)

\* the number of components of the longest prefix of n that exists in t
LongestExisting(t, n) ==
    CHOOSE k \in 0..Len(n) :
        /\ Exists(t, SubSeq(n, 1, k))
        /\ \A j \in (k + 1)..Len(n) : ~Exists(t, SubSeq(n, 1, j))

\* a prefix of n longer than the longest existing one fails to canonicalize
\* for another reason than not being found
Unreadable(t, n) ==
    \E j \in (LongestExisting(t, n) + 1)..Len(n) :
        Stat(t, SubSeq(n, 1, j)).st \notin {"ok", "enoent"}

\* C38: canonicalize_longest_prefix returns the canonical form of the longest
\* existing prefix of the (lexically normalized) path followed by the other
\* segments in their order; when canonicalize fails on a longer prefix with
\* an error other than not-found, that error is returned.
C38_LongestPrefixThenSuffix ==
    (CanonReturned /\ NormalizedArg.ok) =>
        IF Unreadable(args.t, NormalizedArg.v)
        THEN ~ret.value.ok /\ ret.value.err \in {"enotdir", "eloop"}
        ELSE ret.value =
                Ok(Canonicalize(args.t,
                       SubSeq(NormalizedArg.v, 1,
                              LongestExisting(args.t, NormalizedArg.v))).v
                   \o SubSeq(NormalizedArg.v,
                             LongestExisting(args.t, NormalizedArg.v) + 1,
                             Len(NormalizedArg.v)))

\* /inst/d/x where d is a link to the directory b and x does not exist: the
\* answer is /inst/b/x; or /inst/f/x where f is a file: the answer is ENOTDIR
C38_Witness ==
    /\ CanonReturned
    /\ args.t = UsedFs.tree
    /\ \/ /\ args.path = AbsPath(<<S_inst, S_d, S_x>>)
          /\ LongestExisting(args.t, NormalizedArg.v) = 2
          /\ ret.value = Ok(<<S_inst, S_b, S_x>>)
       \/ /\ args.path = AbsPath(<<S_inst, S_f, S_x>>)
          /\ ret.value = Err("enotdir")

\* the cleanup being taken removes the entry tracked for id
RemovedByCleanup(id) ==
    /\ pass_pc = "loop"
    /\ instances = <<>>
    /\ pass_pc' = "idle"
    /\ id \in DOMAIN processes
    /\ id \notin DOMAIN processes'

\* the cleanup being taken emits HealthDisconnected for id
DisconnectedByCleanup(id) ==
    /\ pass_pc = "loop"
    /\ instances = <<>>
    /\ pass_pc' = "idle"
    /\ events' = Append(events, [id |-> id, reason |-> "HealthDisconnected"])

\* the pass judged stale the very entry now tracked for id: same pid
JudgedStale(id) ==
    \E i \in DOMAIN stale_instances :
        stale_instances[i] = id /\ stale_pids[i] = processes[id].pid

\* C33: the cleanup of a get_all_statuses pass removes an entry, and emits
\* HealthDisconnected for it, only if the pass judged that entry stale: an
\* entry registered by set_process with a new pid after the snapshot is kept.
C33_CleanupRemovesOnlyJudged ==
    [][\A id \in InstanceIds :
          (RemovedByCleanup(id) \/ DisconnectedByCleanup(id)) => JudgedStale(id)]_vars

\* the pass judged the first process of i1 (pid 1) stale; i1 was started
\* again (pid 2) before the cleanup, which removed the new entry and emitted
\* HealthDisconnected for it
C33_NewEntryRemoved ==
    /\ pass_pc = "idle"
    /\ stale_instances = <<"i1">>
    /\ stale_pids = <<1>>
    /\ starts = 2
    /\ "i1" \notin DOMAIN processes
    /\ events = <<[id |-> "i1", reason |-> "ProcessTracked"],
                  [id |-> "i1", reason |-> "ProcessTracked"],
                  [id |-> "i1", reason |-> "HealthDisconnected"]>>

\* the task waiting for child w ends in the step being taken
WatcherFires(w) == w \in watchers /\ watchers' = watchers \ {w}

\* the entry tracked for id is flagged as exited in the step being taken
FlaggedExited(id) ==
    /\ id \in DOMAIN processes'
    /\ processes'[id].pid_exited
    /\ id \in DOMAIN processes => ~processes[id].pid_exited

\* C35: pid_exited is set only by mark_pid_exited(id, pid) with the pid of
\* the entry tracked for id at that moment; the call never removes or
\* replaces an entry; the task waiting for the child of an earlier start
\* leaves the entry of a later start of the same instance as it is.
C35_OnlyOwnPidFlagged ==
    [][/\ \A id \in InstanceIds :
             FlaggedExited(id) =>
                 /\ id \in DOMAIN processes
                 /\ WatcherFires([id |-> id, expected_pid |-> processes[id].pid])
                 /\ processes' = [processes EXCEPT ![id].pid_exited = TRUE]
       /\ \A w \in watchers :
             WatcherFires(w) =>
                 /\ DOMAIN processes' = DOMAIN processes
                 /\ (w.id \in DOMAIN processes /\ processes[w.id].pid # w.expected_pid)
                        => processes' = processes]_vars

\* i1 has been started twice; the task waiting for the first child has made
\* its call and ended, the entry of the second start is not flagged
C35_Witness ==
    /\ starts = 2
    /\ watchers = {[id |-> "i1", expected_pid |-> 2]}
    /\ "i1" \in DOMAIN processes
    /\ processes["i1"].pid = 2
    /\ ~processes["i1"].pid_exited
    /\ events = <<[id |-> "i1", reason |-> "ProcessTracked"],
                  [id |-> "i1", reason |-> "ProcessTracked"]>>

-----------------------------------------------------------------------------
(* instance/lifecycle.rs: start_instance called by several commands at once  *)
(* for one instance that is configured and deployed, with the children it    *)
(* spawns                                                                    *)

MaxCalls == 2

StartCalls == 1..MaxCalls

\* the ports a dashboard may be given
Ports == {6185, 6186}

\* the children that have not exited
Live == {p \in DOMAIN children : children[p].state # "exited"}

\* process/control.rs is_process_alive
is_process_alive(pid) == pid \in Live

\* a listener is bound to the port: check_port_available fails, and
\* check_health succeeds
Bound(port) == \E p \in DOMAIN children :
                  children[p].state = "serving" /\ children[p].port = port

\* ProcessManager::is_running
is_running(instance_id) ==
    /\ instance_id \in DOMAIN processes
    /\ \/ /\ processes[instance_id].dashboard_enabled
          /\ Bound(children[processes[instance_id].pid].port)
       \/ is_process_alive(processes[instance_id].pid)

\* the call returns
Return(c, value) ==
    tasks' = [tasks EXCEPT ![c].pc = "done", ![c].result = value]

InitStart ==
    /\ ExtractIdle
    /\ PackIdle
    /\ ConfigIdle
    /\ PureIdle
    /\ MonitorIdle
    /\ children = EmptyMap
    /\ \E port \in Ports \cup {0} :
          app_config = [instances |-> [i \in InstanceIds |->
                                          [version |-> "v1", port |-> port]],
                        installed_versions |-> {"v1"}]
    /\ disk = [marker |-> "written", main_py |-> TRUE, venv_python |-> TRUE,
               data |-> "missing", zips |-> {"v1"}, backup |-> "missing"]
    /\ \E dashboard_enabled \in BOOLEAN :
          tasks = [c \in StartCalls |->
                     [op |-> "start_instance", pc |-> "is_running", instance_id |-> "i1",
                      dashboard_enabled |-> dashboard_enabled, port |-> 0, pid |-> 0,
                      result |-> "none"]]

\* lifecycle.rs 32-34: a running instance is not started again
StartIsRunning(c) ==
    /\ tasks[c].pc = "is_running"
    /\ IF is_running(tasks[c].instance_id)
       THEN Return(c, "instance_running")
       ELSE tasks' = [tasks EXCEPT ![c].pc = "port"]
    /\ UNCHANGED <<children, app_config, disk>>
    /\ UNCHANGED <<extractVars, run, pureVars, packVars, configVars, monitorVars>>

\* lifecycle.rs 51-61: the configured port if it is free (the listener that
\* tested it is dropped at once), any free port when none is configured
StartPort(c) ==
    /\ tasks[c].pc = "port"
    /\ With(app_config.instances[tasks[c].instance_id].port, LAMBDA configured :
          IF configured > 0
          THEN IF Bound(configured)
               THEN Return(c, "port_in_use")
               ELSE tasks' = [tasks EXCEPT ![c].pc = "spawn", ![c].port = configured]
          ELSE IF \A p \in Ports : Bound(p)
               THEN Return(c, "port_in_use")
               ELSE \E p \in Ports :
                       /\ ~Bound(p)
                       /\ tasks' = [tasks EXCEPT ![c].pc = "spawn", ![c].port = p])
    /\ UNCHANGED <<children, app_config, disk>>
    /\ UNCHANGED <<extractVars, run, pureVars, packVars, configVars, monitorVars>>

\* lifecycle.rs 94-100: the child is spawned, or spawn fails
StartSpawn(c) ==
    /\ tasks[c].pc = "spawn"
    /\ \/ /\ Return(c, "spawn_failed")
          /\ UNCHANGED children
       \/ With(Cardinality(DOMAIN children) + 1, LAMBDA pid :
             /\ children' = MapPut(children, pid,
                                   [state |-> "starting", port |-> tasks[c].port])
             /\ tasks' = [tasks EXCEPT ![c].pc = "set_process", ![c].pid = pid])
    /\ UNCHANGED <<app_config, disk>>
    /\ UNCHANGED <<extractVars, run, pureVars, packVars, configVars, monitorVars>>

\* lifecycle.rs 103 and 124-133: ProcessManager::set_process replaces the
\* entry of the instance, and a task is spawned to wait for the child
StartSetProcess(c) ==
    /\ tasks[c].pc = "set_process"
    /\ processes' = MapPut(processes, tasks[c].instance_id,
                           InstanceProcessNew(tasks[c].pid, tasks[c].dashboard_enabled))
    /\ events' = Append(events, [id |-> tasks[c].instance_id, reason |-> "ProcessTracked"])
    /\ failing_since' = MapDel(failing_since, tasks[c].instance_id)
    /\ watchers' = watchers \cup {[id |-> tasks[c].instance_id,
                                   expected_pid |-> tasks[c].pid]}
    /\ starts' = starts + 1
    /\ tasks' = [tasks EXCEPT ![c].pc = "wait"]
    /\ UNCHANGED <<clock, pass_pc, now, instances, results, stale_instances, stale_pids>>
    /\ UNCHANGED <<children, app_config, disk>>
    /\ UNCHANGED <<extractVars, run, pureVars, packVars, configVars>>

\* lifecycle.rs 151-161 and 195-204: the child is alive and its port answers
\* (dashboard enabled), or the child has printed that it is up
StartupSeen(c) ==
    IF tasks[c].dashboard_enabled
    THEN is_process_alive(tasks[c].pid) /\ Bound(tasks[c].port)
    ELSE children[tasks[c].pid].state = "serving"

\* lifecycle.rs 135-219: the start is seen and the port returned, or the wait
\* fails (the child has exited, or 120 s have passed): the child is killed
\* and the entry of the instance removed
StartWait(c) ==
    /\ tasks[c].pc = "wait"
    /\ \/ /\ StartupSeen(c)
          /\ Return(c, "ok")
          /\ UNCHANGED <<children, processes, events, failing_since>>
       \/ /\ Return(c, "startup_failed")
          /\ children' = [children EXCEPT ![tasks[c].pid].state = "exited"]
          /\ processes' = MapDel(processes, tasks[c].instance_id)
          /\ events' = IF tasks[c].instance_id \in DOMAIN processes
                       THEN Append(events, [id |-> tasks[c].instance_id,
                                            reason |-> "ProcessRemoved"])
                       ELSE events
          /\ failing_since' = MapDel(failing_since, tasks[c].instance_id)
    /\ UNCHANGED <<clock, pass_pc, now, instances, results, stale_instances, starts,
                   stale_pids, watchers>>
    /\ UNCHANGED <<app_config, disk>>
    /\ UNCHANGED <<extractVars, run, pureVars, packVars, configVars>>

\* a child binds the port it was given and answers on it
ChildServes ==
    /\ \E p \in DOMAIN children :
          /\ children[p].state = "starting"
          /\ ~Bound(children[p].port)
          /\ children' = [children EXCEPT ![p].state = "serving"]
    /\ UNCHANGED <<tasks, app_config, disk>>
    /\ UNCHANGED <<extractVars, run, pureVars, packVars, configVars, monitorVars>>

\* a child exits
ChildExits ==
    /\ \E p \in Live : children' = [children EXCEPT ![p].state = "exited"]
    /\ UNCHANGED <<tasks, app_config, disk>>
    /\ UNCHANGED <<extractVars, run, pureVars, packVars, configVars, monitorVars>>

NextStart ==
    \/ \E c \in StartCalls : StartIsRunning(c)
    \/ \E c \in StartCalls : StartPort(c)
    \/ \E c \in StartCalls : StartSpawn(c)
    \/ \E c \in StartCalls : StartSetProcess(c)
    \/ \E c \in StartCalls : StartWait(c)
    \/ ChildServes
    \/ ChildExits
    \/ MarkPidExited

SpecStart == InitStart /\ [][NextStart]_vars

\* the entry of the instance is the child pid
TrackedChild(pid) ==
    \E id \in DOMAIN processes : processes[id].pid = pid

\* the call that spawned pid is about to call set_process
AboutToTrack(pid) ==
    \E c \in DOMAIN tasks : tasks[c].pc = "set_process" /\ tasks[c].pid = pid

\* C32: under any interleaving of concurrent start_instance calls for one
\* instance at most one call has a spawned process running, and every running
\* child is the tracked entry of the instance (or is about to be stored by
\* the call that spawned it).
C32_OneChildAndTracked ==
    /\ Cardinality(Live) <= 1
    /\ \A pid \in Live : TrackedChild(pid) \/ AboutToTrack(pid)

\* C32: both calls have returned the port, both children are running, and the
\* entry of the instance is the second child: the first runs untracked.
C32_UntrackedChild ==
    /\ \A c \in StartCalls : tasks[c].pc = "done" /\ tasks[c].result = "ok"
    /\ Live = {1, 2}
    /\ processes["i1"].pid = 2
    /\ ~TrackedChild(1)

-----------------------------------------------------------------------------
(* instance/deploy.rs deploy_instance_with_version and instance/crud.rs      *)
(* update_instance: one call, step by step.  disk holds what the calls look  *)
(* at: the marker .deployed ("missing", "written", or "torn" when a write    *)
(* failed after creating the file), core/main.py, the venv python, core/data *)
(* ("missing", "present", "partial"), the versions whose zip exists and the  *)
(* automatic backup ("missing", "present", "partial").                       *)

\* paths.rs is_instance_deployed
is_instance_deployed(d) == d.marker # "missing" /\ d.main_py /\ d.venv_python

\* remove_deploy_marker that leaves the marker where it is
remove_deploy_marker_keep(d, removed) == Ok(d)

\* deploy.rs remove_deploy_marker: the disk afterwards, or the error of
\* fs::remove_file
remove_deploy_marker(d, removed) ==
    IF d.marker = "missing" THEN Ok(d)
    ELSE IF removed THEN Ok([d EXCEPT !.marker = "missing"])
    ELSE Err("remove_marker_failed")

\* the call returns
Finish(task, value) == [task EXCEPT !.pc = "done", !.result = value]

\* deploy_instance_with_version returns: to its caller update_instance, which
\* goes on when the value is Ok, or to the command
DeployFinish(task, value) ==
    IF task.op = "update_instance" /\ value = "ok"
    THEN [task EXCEPT !.pc = "restore", !.done = task.done \cup {"deploy"}]
    ELSE Finish(task, value)

\* a step of the call has succeeded
StepDone(task, step, next) ==
    [task EXCEPT !.pc = next, !.done = task.done \cup {step}]

Versions == {"v1", "v2"}

\* a disk on which nothing of the instance exists
BlankDisk == [marker |-> "missing", main_py |-> FALSE, venv_python |-> FALSE,
              data |-> "missing", zips |-> {}, backup |-> "missing"]

\* the disks a call may find: the marker is written last, so any combination
\* of code, venv and marker can be left by earlier calls
Disks == [marker : {"missing", "written"}, main_py : BOOLEAN, venv_python : BOOLEAN,
          data : {"missing", "present"}, zips : {{}, {"v1", "v2"}},
          backup : {"missing"}]

\* the calls explored: a valid instance id, or an invalid one, for which no
\* directory exists
Calls ==
    [op : {"deploy_instance_with_version"}, version : Versions, port : {0},
     valid : BOOLEAN]
    \cup [op : {"update_instance"}, version : Versions \cup {"none"},
          port : {0, 6186}, valid : BOOLEAN]

InitInstance ==
    /\ ExtractIdle
    /\ PackIdle
    /\ ConfigIdle
    /\ PureIdle
    /\ MonitorIdle
    /\ children = EmptyMap
    /\ \E installed \in {{"v1"}, {"v1", "v2"}} :
          app_config = [instances |-> [i \in InstanceIds |->
                                          [version |-> "v1", port |-> 6185]],
                        installed_versions |-> installed]
    /\ \E call \in Calls :
          /\ disk \in IF call.valid THEN Disks ELSE {BlankDisk}
          /\ tasks = [c \in {1} |->
                        [op |-> call.op, instance_id |-> "i1", valid |-> call.valid,
                         version |-> call.version, port |-> call.port,
                         pc |-> IF call.op = "update_instance" THEN "update" ELSE "deploy",
                         was_deployed |-> FALSE, backup_path |-> None, done |-> {},
                         result |-> "none", disk0 |-> disk, config0 |-> app_config]]

\* what a step of one call leaves alone
callRest == <<children, extractVars, run, pureVars, packVars, configVars, monitorVars>>

\* deploy.rs 57-59: validate_instance_id, was_deployed
DeployBegin(c) ==
    /\ tasks[c].pc = "deploy"
    /\ tasks' = [tasks EXCEPT ![c] =
                    IF tasks[c].valid
                    THEN [tasks[c] EXCEPT !.pc = "remove_marker",
                                          !.was_deployed = is_instance_deployed(disk)]
                    ELSE Finish(tasks[c], "invalid_instance_id")]
    /\ UNCHANGED <<app_config, disk>>
    /\ UNCHANGED callRest

\* deploy.rs 62: remove_deploy_marker(instance_id)?
DeployRemoveMarker(c) ==
    /\ tasks[c].pc = "remove_marker"
    /\ \E removed \in BOOLEAN :
          With(remove_deploy_marker(disk, removed), LAMBDA r :
             IF r.ok
             THEN /\ disk' = r.v
                  /\ tasks' = [tasks EXCEPT ![c].pc = "lookup"]
             ELSE /\ disk' = disk
                  /\ tasks' = [tasks EXCEPT ![c] = Finish(tasks[c], r.err)])
    /\ UNCHANGED app_config
    /\ UNCHANGED callRest

\* deploy.rs 64-77: the version is installed and its zip exists
DeployLookup(c) ==
    /\ tasks[c].pc = "lookup"
    /\ tasks' = [tasks EXCEPT ![c] =
                    IF tasks[c].version \notin app_config.installed_versions
                    THEN Finish(tasks[c], "version_not_found")
                    ELSE IF tasks[c].version \notin disk.zips
                    THEN Finish(tasks[c], "zip_not_found")
                    ELSE [tasks[c] EXCEPT !.pc = "extract"]]
    /\ UNCHANGED <<app_config, disk>>
    /\ UNCHANGED callRest

\* deploy.rs 85-107: the code is extracted, unless the instance was deployed
\* and main.py is there; a failed extraction has cleared or written any part
DeployExtract(c) ==
    /\ tasks[c].pc = "extract"
    /\ IF tasks[c].was_deployed /\ disk.main_py
       THEN /\ tasks' = [tasks EXCEPT ![c] = StepDone(tasks[c], "extract", "venv")]
            /\ disk' = disk
       ELSE \/ /\ tasks' = [tasks EXCEPT ![c] = StepDone(tasks[c], "extract", "venv")]
               /\ disk' = [disk EXCEPT !.main_py = TRUE]
            \/ /\ tasks' = [tasks EXCEPT ![c] = Finish(tasks[c], "extract_failed")]
               /\ \E main_py \in BOOLEAN : disk' = [disk EXCEPT !.main_py = main_py]
    /\ UNCHANGED app_config
    /\ UNCHANGED callRest

\* deploy.rs 111: create_venv(&venv_dir, version).await?
DeployVenv(c) ==
    /\ tasks[c].pc = "venv"
    /\ \/ /\ tasks' = [tasks EXCEPT ![c] = StepDone(tasks[c], "venv", "deps")]
          /\ disk' = [disk EXCEPT !.venv_python = TRUE]
       \/ /\ tasks' = [tasks EXCEPT ![c] = Finish(tasks[c], "venv_failed")]
          /\ \E venv_python \in {disk.venv_python, FALSE} :
                disk' = [disk EXCEPT !.venv_python = venv_python]
    /\ UNCHANGED app_config
    /\ UNCHANGED callRest

\* deploy.rs 117: install_requirements(&venv_python, &core_dir).await?
DeployDeps(c) ==
    /\ tasks[c].pc = "deps"
    /\ \/ tasks' = [tasks EXCEPT ![c] = StepDone(tasks[c], "deps", "write_marker")]
       \/ tasks' = [tasks EXCEPT ![c] = Finish(tasks[c], "deps_failed")]
    /\ UNCHANGED <<app_config, disk>>
    /\ UNCHANGED callRest

\* deploy.rs 120 and 171-179: write_deploy_marker; fs::write creates the file
\* and then writes it, so a failure leaves no file or a file cut short
DeployWriteMarker(c) ==
    /\ tasks[c].pc = "write_marker"
    /\ \/ /\ tasks' = [tasks EXCEPT ![c] = DeployFinish(tasks[c], "ok")]
          /\ disk' = [disk EXCEPT !.marker = "written"]
       \/ /\ tasks' = [tasks EXCEPT ![c] = Finish(tasks[c], "write_marker_failed")]
          /\ \E marker \in {"missing", "torn"} : disk' = [disk EXCEPT !.marker = marker]
    /\ UNCHANGED app_config
    /\ UNCHANGED callRest

\* crud.rs 140-159: validate_instance_id, and whether the version changes
UpdateBegin(c) ==
    /\ tasks[c].pc = "update"
    /\ tasks' = [tasks EXCEPT ![c] =
          IF ~tasks[c].valid
          THEN Finish(tasks[c], "invalid_instance_id")
          ELSE IF tasks[c].instance_id \notin DOMAIN app_config.instances
          THEN Finish(tasks[c], "instance_not_found")
          ELSE IF tasks[c].version \in
                     {"none", app_config.instances[tasks[c].instance_id].version}
          THEN [tasks[c] EXCEPT !.pc = "config_only"]
          ELSE IF tasks[c].version \notin app_config.installed_versions
          THEN Finish(tasks[c], "version_not_found")
          ELSE [tasks[c] EXCEPT !.pc = "backup"]]
    /\ UNCHANGED <<app_config, disk>>
    /\ UNCHANGED callRest

\* the closures of crud.rs 205-218 and 235-250 applied to the configuration
SetInstance(config, id, version, port) ==
    [config EXCEPT !.instances[id] =
        [version |-> IF version = "none" THEN @.version ELSE version,
         port |-> IF port > 0 THEN port ELSE @.port]]

\* crud.rs 230-250: no version change, with_config_mut sets name and port
UpdateConfigOnly(c) ==
    /\ tasks[c].pc = "config_only"
    /\ \/ /\ app_config' = SetInstance(app_config, tasks[c].instance_id,
                                       tasks[c].version, tasks[c].port)
          /\ tasks' = [tasks EXCEPT ![c] = Finish(tasks[c], "ok")]
       \/ /\ app_config' = app_config
          /\ tasks' = [tasks EXCEPT ![c] = Finish(tasks[c], "save_failed")]
    /\ UNCHANGED disk
    /\ UNCHANGED callRest

\* crud.rs 165-171: create_backup(instance_id, true)? when core/data exists
UpdateBackup(c) ==
    /\ tasks[c].pc = "backup"
    /\ IF disk.data = "missing"
       THEN /\ tasks' = [tasks EXCEPT ![c].pc = "clear"]
            /\ disk' = disk
       ELSE \/ /\ tasks' = [tasks EXCEPT ![c].pc = "clear", ![c].backup_path = Some(<<"auto">>)]
               /\ disk' = [disk EXCEPT !.backup = "present"]
            \/ /\ tasks' = [tasks EXCEPT ![c] = Finish(tasks[c], "backup_failed")]
               /\ \E backup \in {"missing", "partial"} :
                     disk' = [disk EXCEPT !.backup = backup]
    /\ UNCHANGED app_config
    /\ UNCHANGED callRest

\* crud.rs 174-184: core and venv are removed; remove_dir_all that fails has
\* removed any part
UpdateClear(c) ==
    /\ tasks[c].pc = "clear"
    /\ \/ /\ tasks' = [tasks EXCEPT ![c].pc = "update_remove_marker"]
          /\ disk' = [disk EXCEPT !.main_py = FALSE, !.data = "missing",
                                  !.venv_python = FALSE]
       \/ /\ tasks' = [tasks EXCEPT ![c] = Finish(tasks[c], "clear_failed")]
          /\ \E main_py \in {disk.main_py, FALSE}, venv_python \in {disk.venv_python, FALSE},
                data \in {disk.data, "missing"} :
                disk' = [disk EXCEPT !.main_py = main_py, !.data = data,
                                     !.venv_python = venv_python]
    /\ UNCHANGED app_config
    /\ UNCHANGED callRest

\* crud.rs 187-190: remove_deploy_marker(instance_id)?, then
\* deploy_instance_with_version is called with the new version
UpdateRemoveMarker(c) ==
    /\ tasks[c].pc = "update_remove_marker"
    /\ \E removed \in BOOLEAN :
          With(remove_deploy_marker(disk, removed), LAMBDA r :
             IF r.ok
             THEN /\ disk' = r.v
                  /\ tasks' = [tasks EXCEPT ![c].pc = "deploy"]
             ELSE /\ disk' = disk
                  /\ tasks' = [tasks EXCEPT ![c] = Finish(tasks[c], r.err)])
    /\ UNCHANGED app_config
    /\ UNCHANGED callRest

\* update_instance that goes on when restore_data_to_instance fails
UpdateRestore_unchecked(c) ==
    /\ tasks[c].pc = "restore"
    /\ IF ~tasks[c].backup_path.some
       THEN /\ tasks' = [tasks EXCEPT ![c].pc = "config"]
            /\ disk' = disk
       ELSE \/ /\ tasks' = [tasks EXCEPT ![c] = StepDone(tasks[c], "restore", "config")]
               /\ disk' = [disk EXCEPT !.data = "present"]
            \/ /\ tasks' = [tasks EXCEPT ![c].pc = "config"]
               /\ \E data \in {"missing", "partial"} : disk' = [disk EXCEPT !.data = data]
    /\ UNCHANGED app_config
    /\ UNCHANGED callRest

\* crud.rs 192-197: restore_data_to_instance(bp, instance_id)? when a backup
\* was made
UpdateRestore(c) ==
    /\ tasks[c].pc = "restore"
    /\ IF ~tasks[c].backup_path.some
       THEN /\ tasks' = [tasks EXCEPT ![c].pc = "config"]
            /\ disk' = disk
       ELSE \/ /\ tasks' = [tasks EXCEPT ![c] = StepDone(tasks[c], "restore", "config")]
               /\ disk' = [disk EXCEPT !.data = "present"]
            \/ /\ tasks' = [tasks EXCEPT ![c] = Finish(tasks[c], "restore_failed")]
               /\ \E data \in {"missing", "partial"} : disk' = [disk EXCEPT !.data = data]
    /\ UNCHANGED app_config
    /\ UNCHANGED callRest

\* crud.rs 199-218: with_config_mut sets the version, the name and the port;
\* nothing changes when the save fails (config.rs 56-59)
UpdateConfig(c) ==
    /\ tasks[c].pc = "config"
    /\ \/ /\ app_config' = SetInstance(app_config, tasks[c].instance_id,
                                       tasks[c].version, tasks[c].port)
          /\ tasks' = [tasks EXCEPT ![c] = StepDone(tasks[c], "config", "delete_backup")]
       \/ /\ app_config' = app_config
          /\ tasks' = [tasks EXCEPT ![c] = Finish(tasks[c], "save_failed")]
    /\ UNCHANGED disk
    /\ UNCHANGED callRest

\* crud.rs 220-228: delete_backup, whose failure is only logged
UpdateDeleteBackup(c) ==
    /\ tasks[c].pc = "delete_backup"
    /\ tasks' = [tasks EXCEPT ![c] = Finish(tasks[c], "ok")]
    /\ IF tasks[c].backup_path.some
       THEN \E backup \in {"missing", disk.backup} : disk' = [disk EXCEPT !.backup = backup]
       ELSE disk' = disk
    /\ UNCHANGED app_config
    /\ UNCHANGED callRest

NextInstance ==
    \/ \E c \in DOMAIN tasks : DeployBegin(c)
    \/ \E c \in DOMAIN tasks : DeployRemoveMarker(c)
    \/ \E c \in DOMAIN tasks : DeployLookup(c)
    \/ \E c \in DOMAIN tasks : DeployExtract(c)
    \/ \E c \in DOMAIN tasks : DeployVenv(c)
    \/ \E c \in DOMAIN tasks : DeployDeps(c)
    \/ \E c \in DOMAIN tasks : DeployWriteMarker(c)
    \/ \E c \in DOMAIN tasks : UpdateBegin(c)
    \/ \E c \in DOMAIN tasks : UpdateConfigOnly(c)
    \/ \E c \in DOMAIN tasks : UpdateBackup(c)
    \/ \E c \in DOMAIN tasks : UpdateClear(c)
    \/ \E c \in DOMAIN tasks : UpdateRemoveMarker(c)
    \/ \E c \in DOMAIN tasks : UpdateRestore(c)
    \/ \E c \in DOMAIN tasks : UpdateConfig(c)
    \/ \E c \in DOMAIN tasks : UpdateDeleteBackup(c)

SpecInstance == InitInstance /\ [][NextInstance]_vars

\* the calls of deploy_instance_with_version made by a command that have returned
DeployReturned ==
    {c \in DOMAIN tasks : tasks[c].op = "deploy_instance_with_version"
                          /\ tasks[c].pc = "done"}

\* extraction (or its skip), venv creation and requirement installation
DeploySteps == {"extract", "venv", "deps"}

\* C31 as stated: after deploy_instance_with_version the marker exists only
\* if extraction (or its justified skip), venv creation and requirement
\* installation all succeeded in that call, and a call that failed at any
\* step leaves no marker.
C31_MarkerOnlyAfterFullDeploy ==
    \A c \in DeployReturned :
       /\ disk.marker # "missing" => DeploySteps \subseteq tasks[c].done
       /\ tasks[c].result # "ok" => disk.marker = "missing"

\* C31: after deploy_instance_with_version the marker exists only if the
\* three steps succeeded in that call, or if the removal of the old marker
\* failed, in which case the call returned at once and the disk is as it was;
\* a call that failed at any step between the removal of the marker and its
\* writing leaves no marker (a failed write of the marker may leave a file).
C31_MarkerAfterDeploy ==
    \A c \in DeployReturned :
       /\ disk.marker # "missing" =>
             \/ DeploySteps \subseteq tasks[c].done
             \/ tasks[c].result = "remove_marker_failed" /\ disk = tasks[c].disk0
       /\ tasks[c].result \notin {"ok", "remove_marker_failed", "write_marker_failed"}
             => disk.marker = "missing"

\* C31: the instance was deployed, extraction was skipped for that reason and
\* the venv created, the installation of requirements failed: no marker.
C31_Witness ==
    \E c \in DeployReturned :
       /\ is_instance_deployed(tasks[c].disk0)
       /\ tasks[c].done = {"extract", "venv"}
       /\ tasks[c].result = "deps_failed"
       /\ disk.marker = "missing"

\* the calls of update_instance that ask for another version than the
\* configured one
VersionChanges ==
    {c \in DOMAIN tasks :
        /\ tasks[c].op = "update_instance"
        /\ tasks[c].valid
        /\ tasks[c].version \notin
              {"none", tasks[c].config0.instances[tasks[c].instance_id].version}}

\* C36: in update_instance with a version change, the configured version,
\* name and port change only in the with_config_mut step that follows a
\* successful deployment of the new version and a successful restore of the
\* data (when there was data to back up), the automatic backup is deleted
\* only after that config update, and a call that fails at any step returns
\* with the configuration as it was and the automatic backup in place.
C36_ConfigAfterDeployAndRestore ==
    /\ [][\A c \in VersionChanges :
             /\ app_config' # app_config =>
                   /\ tasks[c].pc = "config"
                   /\ "deploy" \in tasks[c].done
                   /\ tasks[c].backup_path.some => "restore" \in tasks[c].done
             /\ (disk.backup = "present" /\ disk'.backup # "present") =>
                   /\ tasks[c].pc = "delete_backup"
                   /\ "config" \in tasks[c].done]_vars
    /\ [](\A c \in VersionChanges :
             (tasks[c].pc = "done" /\ tasks[c].result # "ok") =>
                /\ app_config = tasks[c].config0
                /\ tasks[c].backup_path.some => disk.backup = "present")

\* C36: an update from v1 to v2 of an instance with data has returned Ok:
\* deployment, restore and config update succeeded in that order, the
\* configured version is v2 and the automatic backup is gone.
C36_Witness ==
    \E c \in VersionChanges :
       /\ tasks[c].pc = "done"
       /\ tasks[c].result = "ok"
       /\ tasks[c].backup_path.some
       /\ tasks[c].done = {"extract", "venv", "deps", "deploy", "restore", "config"}
       /\ app_config.instances["i1"].version = "v2"
       /\ tasks[c].config0.instances["i1"].version = "v1"
       /\ disk.backup = "missing"

-----------------------------------------------------------------------------
(* Commands that read and write instances and installed_versions, run at     *)
(* the same time: instance/crud.rs create_instance and update_instance,      *)
(* backup.rs restore_backup, download.rs download_version and remove_version.*)
(* load_config and each with_config_mut closure are one step (CONFIG_LOCK).  *)

MaxTasks == 2

\* the id uuid::Uuid::new_v4 gives the instance created by call c
NewIds == <<"i2", "i3", "i4">>

VersionOps == {"create_instance", "update_instance", "restore_backup",
               "download_version", "remove_version"}

\* every instance is configured with an installed version
VersionsInstalled(config) ==
    \A id \in DOMAIN config.instances :
       config.instances[id].version \in config.installed_versions

ensure_version_installed(config, version) == version \in config.installed_versions

InitVersions ==
    /\ ExtractIdle
    /\ PackIdle
    /\ ConfigIdle
    /\ PureIdle
    /\ MonitorIdle
    /\ children = EmptyMap
    /\ \E installed \in {{"v1"}, {"v1", "v2"}} :
          /\ app_config = [instances |-> [i \in InstanceIds |->
                                             [version |-> "v1", port |-> 6185]],
                           installed_versions |-> installed]
          /\ disk = [marker |-> "written", main_py |-> TRUE, venv_python |-> TRUE,
                     data |-> "present", zips |-> installed, backup |-> "missing"]
    /\ tasks \in [1..MaxTasks ->
                    {[op |-> op, instance_id |-> "i1", valid |-> TRUE,
                      version |-> version, port |-> 0,
                      pc |-> IF op = "update_instance" THEN "update" ELSE op,
                      was_deployed |-> FALSE, backup_path |-> None, done |-> {},
                      result |-> "none", disk0 |-> disk, config0 |-> app_config] :
                     op \in VersionOps, version \in Versions}]

\* crud.rs 69-76: load_config, ensure_version_installed, the new directory
CreateCheck(c) ==
    /\ tasks[c].pc = "create_instance"
    /\ tasks' = [tasks EXCEPT ![c] =
                    IF ensure_version_installed(app_config, tasks[c].version)
                    THEN [tasks[c] EXCEPT !.pc = "create_insert"]
                    ELSE Finish(tasks[c], "version_not_found")]
    /\ UNCHANGED <<app_config, disk>>
    /\ UNCHANGED callRest

\* crud.rs 80-93: with_config_mut tests the version again and inserts the
\* instance; nothing changes when the save fails
CreateInsert(c) ==
    /\ tasks[c].pc = "create_insert"
    /\ IF ~ensure_version_installed(app_config, tasks[c].version)
       THEN /\ tasks' = [tasks EXCEPT ![c] = Finish(tasks[c], "version_not_found")]
            /\ app_config' = app_config
       ELSE \/ /\ tasks' = [tasks EXCEPT ![c] = Finish(tasks[c], "ok")]
               /\ app_config' =
                     [app_config EXCEPT !.instances =
                         MapPut(app_config.instances, NewIds[c],
                                [version |-> tasks[c].version, port |-> tasks[c].port])]
            \/ /\ tasks' = [tasks EXCEPT ![c] = Finish(tasks[c], "save_failed")]
               /\ app_config' = app_config
    /\ UNCHANGED disk
    /\ UNCHANGED callRest

\* backup.rs 219-238: the version of the backup is installed and its instance
\* still exists
RestoreCheck(c) ==
    /\ tasks[c].pc = "restore_backup"
    /\ tasks' = [tasks EXCEPT ![c] =
                    IF ~ensure_version_installed(app_config, tasks[c].version)
                    THEN Finish(tasks[c], "version_not_found")
                    ELSE IF tasks[c].instance_id \notin DOMAIN app_config.instances
                    THEN Finish(tasks[c], "instance_not_found")
                    ELSE [tasks[c] EXCEPT !.pc = "restore_extract"]]
    /\ UNCHANGED <<app_config, disk>>
    /\ UNCHANGED callRest

\* backup.rs 240-244: extract_backup_to_instance(...)?
RestoreExtract(c) ==
    /\ tasks[c].pc = "restore_extract"
    /\ \/ /\ tasks' = [tasks EXCEPT ![c].pc = "restore_config"]
          /\ disk' = [disk EXCEPT !.data = "present"]
       \/ /\ tasks' = [tasks EXCEPT ![c] = Finish(tasks[c], "restore_failed")]
          /\ \E data \in {disk.data, "partial"} : disk' = [disk EXCEPT !.data = data]
    /\ UNCHANGED app_config
    /\ UNCHANGED callRest

\* backup.rs 246-254: with_config_mut sets the version of the instance to the
\* version of the backup
RestoreConfig(c) ==
    /\ tasks[c].pc = "restore_config"
    /\ \/ /\ tasks' = [tasks EXCEPT ![c] = Finish(tasks[c], "ok")]
          /\ app_config' =
                IF tasks[c].instance_id \in DOMAIN app_config.instances
                THEN [app_config EXCEPT !.instances[tasks[c].instance_id].version =
                                           tasks[c].version]
                ELSE app_config
       \/ /\ tasks' = [tasks EXCEPT ![c] = Finish(tasks[c], "save_failed")]
          /\ app_config' = app_config
    /\ UNCHANGED disk
    /\ UNCHANGED callRest

\* download.rs 45-59: the old zip is removed and the archive downloaded; a
\* failed download leaves no file or a part of it
DownloadFile(c) ==
    /\ tasks[c].pc = "download_version"
    /\ \/ /\ tasks' = [tasks EXCEPT ![c].pc = "download_config"]
          /\ disk' = [disk EXCEPT !.zips = @ \cup {tasks[c].version}]
       \/ /\ tasks' = [tasks EXCEPT ![c] = Finish(tasks[c], "download_failed")]
          /\ \E zips \in {disk.zips \cup {tasks[c].version},
                          disk.zips \ {tasks[c].version}} :
                disk' = [disk EXCEPT !.zips = zips]
    /\ UNCHANGED app_config
    /\ UNCHANGED callRest

\* download.rs 61-75: with_config_mut registers the version
DownloadConfig(c) ==
    /\ tasks[c].pc = "download_config"
    /\ \/ /\ tasks' = [tasks EXCEPT ![c] = Finish(tasks[c], "ok")]
          /\ app_config' = [app_config EXCEPT !.installed_versions =
                                                  @ \cup {tasks[c].version}]
       \/ /\ tasks' = [tasks EXCEPT ![c] = Finish(tasks[c], "save_failed")]
          /\ app_config' = app_config
    /\ UNCHANGED disk
    /\ UNCHANGED callRest

\* download.rs 80-94: with_config_mut refuses a version that an instance is
\* configured with, and unregisters any other
RemoveConfig(c) ==
    /\ tasks[c].pc = "remove_version"
    /\ IF \E id \in DOMAIN app_config.instances :
             app_config.instances[id].version = tasks[c].version
       THEN /\ tasks' = [tasks EXCEPT ![c] = Finish(tasks[c], "version_in_use")]
            /\ app_config' = app_config
       ELSE \/ /\ tasks' = [tasks EXCEPT ![c].pc = "remove_zip"]
               /\ app_config' = [app_config EXCEPT !.installed_versions =
                                                       @ \ {tasks[c].version}]
            \/ /\ tasks' = [tasks EXCEPT ![c] = Finish(tasks[c], "save_failed")]
               /\ app_config' = app_config
    /\ UNCHANGED disk
    /\ UNCHANGED callRest

\* download.rs 96-102: the zip is removed, a failure is only logged
RemoveZip(c) ==
    /\ tasks[c].pc = "remove_zip"
    /\ tasks' = [tasks EXCEPT ![c] = Finish(tasks[c], "ok")]
    /\ \E zips \in {disk.zips, disk.zips \ {tasks[c].version}} :
          disk' = [disk EXCEPT !.zips = zips]
    /\ UNCHANGED app_config
    /\ UNCHANGED callRest

NextVersions ==
    \/ NextInstance
    \/ \E c \in DOMAIN tasks : CreateCheck(c)
    \/ \E c \in DOMAIN tasks : CreateInsert(c)
    \/ \E c \in DOMAIN tasks : RestoreCheck(c)
    \/ \E c \in DOMAIN tasks : RestoreExtract(c)
    \/ \E c \in DOMAIN tasks : RestoreConfig(c)
    \/ \E c \in DOMAIN tasks : DownloadFile(c)
    \/ \E c \in DOMAIN tasks : DownloadConfig(c)
    \/ \E c \in DOMAIN tasks : RemoveConfig(c)
    \/ \E c \in DOMAIN tasks : RemoveZip(c)

SpecVersions == InitVersions /\ [][NextVersions]_vars

\* C34: in every reachable configuration each instance's version is one of
\* the installed versions, under any interleaving of create_instance,
\* update_instance, restore_backup, download_version and remove_version.
C34_InstanceVersionsInstalled == VersionsInstalled(app_config)

\* C34: restore_backup of a backup taken at v2 and remove_version("v2") have
\* both returned Ok: instance i1 is configured with v2, which is not installed.
C34_RestoredVersionRemoved ==
    /\ \E c \in DOMAIN tasks : /\ tasks[c].op = "restore_backup"
                              /\ tasks[c].pc = "done" /\ tasks[c].result = "ok"
    /\ \E c \in DOMAIN tasks : /\ tasks[c].op = "remove_version"
                              /\ tasks[c].pc = "done" /\ tasks[c].result = "ok"
    /\ app_config.instances["i1"].version = "v2"
    /\ app_config.installed_versions = {"v1"}

====
